---- MODULE Spec2Model ----
(***************************************************************************)
(* Inkly: the session/reward state machine of GameManager, with the        *)
(* domain model (Player, Prompt, DrawingSession), the prompt generator and *)
(* the achievement rules it calls.                                         *)
(*                                                                         *)
(* Python objects are modelled as a heap: player_objs is the sequence of   *)
(* Player objects ever constructed (the index is the object's reference),  *)
(* the players dict maps a key to a reference, and DrawingSession.player   *)
(* holds a reference.  time_spent is a float in the source; here it is a   *)
(* whole number of 1/TimeUnit seconds, so that fractional seconds occur    *)
(* and int() is computed exactly.  response is what the last call         *)
(* returned (or that it raised), tagged with the operation called.         *)
(* The serving layer (main.py) adds gemini_service, the classifier the app  *)
(* constructed, and http_requests, the completion requests it has received *)
(* with the status each was answered with; frame holds the locals of a     *)
(* call of analyze_drawing that is followed request by request.            *)
(* Timestamps (last_played, started_at) take no part in any rule and are   *)
(* left out; prompt texts are written without accents.                     *)
(***************************************************************************)
EXTENDS Integers, Sequences, FiniteSets, TLC

VARIABLES players, player_objs, sessions, multiplayer_rooms, response,
          gemini_service, http_requests, frame

vars == <<players, player_objs, sessions, multiplayer_rooms, response,
          gemini_service, http_requests, frame>>

\* the state of the serving layer
serving == <<gemini_service, http_requests, frame>>

(*************************** bounds of the model ***************************)
MaxSessions == 2
MaxCompletions == 2
MaxDrawings == 15
MaxClimb == 8
MaxRequests == 2

(************************ representation constants *************************)
\* time_spent is counted in quarters of a second
TimeUnit == 4
\* Python's None where a level (always >= 1) is expected
None == 0

(****************************** enumerations *******************************)
EASY == "easy"
MEDIUM == "medium"
HARD == "hard"

NORMAL == "normal"
NEON == "neon"
SPRAY == "spray"
MARKER == "marker"
SPARKLE == "sparkle"

(***************************** Python helpers ******************************)
\* x in list
Contains(list, x) == \E i \in DOMAIN list : list[i] = x

\* int(n/d) for d > 0: truncation toward zero
int(n, d) == IF n >= 0 THEN n \div d ELSE -((-n) \div d)

\* max(a, b)
max(a, b) == IF a >= b THEN a ELSE b

\* Python's round(n/d) for d > 0: to the nearest integer, a tie to the even one
round(n, d) ==
    LET q == n \div d
        twice == 2 * (n - q * d)
    IN  IF twice < d THEN q
        ELSE IF twice > d THEN q + 1
        ELSE IF q % 2 = 0 THEN q ELSE q + 1

(********************************* Player **********************************)
\* Player(id=..., name=...): the dataclass defaults
Player(id, name) ==
    [id |-> id, name |-> name, level |-> 1, xp |-> 0, streak |-> 0, total_drawings |-> 0,
     correct_guesses |-> 0, brushes_unlocked |-> <<NORMAL>>,
     achievements |-> <<>>]

\* a bug add_xp could have: '>' for '>='
add_xp_strict(player, points) ==
    LET xp == player.xp + points
        xp_needed == player.level * 100
    IN  IF xp > xp_needed
        THEN [player |-> [player EXCEPT !.level = @ + 1, !.xp = xp - xp_needed],
              level_up |-> TRUE]
        ELSE [player |-> [player EXCEPT !.xp = xp], level_up |-> FALSE]

\* a bug add_xp could have: the threshold is not taken off the xp
add_xp_kept(player, points) ==
    LET xp == player.xp + points
        xp_needed == player.level * 100
    IN  IF xp >= xp_needed
        THEN [player |-> [player EXCEPT !.level = @ + 1, !.xp = xp],
              level_up |-> TRUE]
        ELSE [player |-> [player EXCEPT !.xp = xp], level_up |-> FALSE]

\* a bug add_xp could have: xp that covers two thresholds gives two levels
add_xp_twice(player, points) ==
    LET xp == player.xp + points
        xp_needed == player.level * 100
        xp_needed_2 == xp_needed + (player.level + 1) * 100
    IN  IF xp >= xp_needed_2
        THEN [player |-> [player EXCEPT !.level = @ + 2,
                                         !.xp = xp - xp_needed_2],
              level_up |-> TRUE]
        ELSE IF xp >= xp_needed
        THEN [player |-> [player EXCEPT !.level = @ + 1, !.xp = xp - xp_needed],
              level_up |-> TRUE]
        ELSE [player |-> [player EXCEPT !.xp = xp], level_up |-> FALSE]

\* Player.add_xp: the updated player and the returned flag
add_xp(player, points) ==
    LET xp == player.xp + points
        xp_needed == player.level * 100
    IN  IF xp >= xp_needed
        THEN [player |-> [player EXCEPT !.level = @ + 1, !.xp = xp - xp_needed],
              level_up |-> TRUE]
        ELSE [player |-> [player EXCEPT !.xp = xp], level_up |-> FALSE]

\* a bug unlock_brush could have: the brush is appended whether held or not
unlock_brush_again(player, brush) ==
    [player EXCEPT !.brushes_unlocked = Append(@, brush)]

\* Player.unlock_brush
unlock_brush(player, brush) ==
    IF ~Contains(player.brushes_unlocked, brush)
    THEN [player EXCEPT !.brushes_unlocked = Append(@, brush)]
    ELSE player

\* a bug add_achievement could have: the list is replaced, not appended to
add_achievement_replace(player, achievement) ==
    IF ~Contains(player.achievements, achievement)
    THEN [player EXCEPT !.achievements = <<achievement>>]
    ELSE player

\* Player.add_achievement
add_achievement(player, achievement) ==
    IF ~Contains(player.achievements, achievement)
    THEN [player EXCEPT !.achievements = Append(@, achievement)]
    ELSE player

(***************************** PromptGenerator *****************************)
EASY_PROMPTS ==
    <<"cachorro", "gato", "casa", "arvore", "sol", "lua", "estrela",
      "coracao", "flor", "carro", "bicicleta", "passaro", "peixe">>

MEDIUM_PROMPTS ==
    <<"dragao", "robo", "castelo", "foguete", "dinossauro", "sereia",
      "unicornio", "pirata", "ninja", "bruxa", "vampiro", "zumbi">>

HARD_PROMPTS ==
    <<"felicidade", "liberdade", "solidao", "caos", "harmonia",
      "tempo", "memoria", "sonho", "impossivel", "infinito">>

SURPRISE_PROMPTS ==
    <<"um gato astronauta", "pizza voadora", "robo jardineiro",
      "dragao dormindo", "arvore de doces", "nuvem com pernas",
      "peixe-guitarra", "cachorro-unicornio", "casa flutuante">>

\* random.choice(pool): any entry
choice(pool) == {pool[i] : i \in DOMAIN pool}

Prompt(text, difficulty, time_limit) ==
    [text |-> text, difficulty |-> difficulty, time_limit |-> time_limit]

\* a bug generate could have: the surprise pool is drawn from whatever the flag
generate_surprise_unasked(difficulty, surprise) ==
    {Prompt(text, MEDIUM, 30) : text \in choice(SURPRISE_PROMPTS)}
    \cup
    (IF difficulty = EASY
     THEN {Prompt(text, difficulty, 20) : text \in choice(EASY_PROMPTS)}
     ELSE IF difficulty = MEDIUM
     THEN {Prompt(text, difficulty, 25) : text \in choice(MEDIUM_PROMPTS)}
     ELSE {Prompt(text, difficulty, 30) : text \in choice(HARD_PROMPTS)})

\* PromptGenerator.generate: the prompts it can return; random.random() > 0.7
\* is either outcome
generate(difficulty, surprise) ==
    (IF surprise
     THEN {Prompt(text, MEDIUM, 30) : text \in choice(SURPRISE_PROMPTS)}
     ELSE {})
    \cup
    (IF difficulty = EASY
     THEN {Prompt(text, difficulty, 20) : text \in choice(EASY_PROMPTS)}
     ELSE IF difficulty = MEDIUM
     THEN {Prompt(text, difficulty, 25) : text \in choice(MEDIUM_PROMPTS)}
     ELSE {Prompt(text, difficulty, 30) : text \in choice(HARD_PROMPTS)})

(**************************** AchievementSystem ****************************)
\* AchievementSystem.ACHIEVEMENTS[id]["xp"]
ACHIEVEMENTS ==
    [first_draw |-> 50, speed_demon |-> 100, perfectionist |-> 200,
     night_owl |-> 75, level_10 |-> 500, abstract_master |-> 150]

\* one rule of check_achievements: st is [player, new_achievements]
rule(st, id, condition) ==
    IF condition /\ ~Contains(st.player.achievements, id)
    THEN [player |-> add_achievement(st.player, id),
          new_achievements |-> Append(st.new_achievements, id)]
    ELSE st

\* a bug check_achievements could have: speed_demon is not checked against
\* the achievements the player already holds
check_achievements_again(player, session) ==
    LET s0 == [player |-> player, new_achievements |-> <<>>]
        s1 == rule(s0, "first_draw", player.total_drawings = 1)
        s2 == IF session.time_spent < 5 * TimeUnit /\ session.correct
              THEN [player |-> add_achievement(s1.player, "speed_demon"),
                    new_achievements |-> Append(s1.new_achievements, "speed_demon")]
              ELSE s1
        s3 == rule(s2, "perfectionist", player.streak >= 10)
        s4 == rule(s3, "level_10", player.level >= 10)
        s5 == rule(s4, "abstract_master",
                   player.total_drawings - player.correct_guesses >= 5)
    IN  s5

\* a bug check_achievements could have: first_draw asks for a correct drawing
check_achievements_first_hit(player, session) ==
    LET s0 == [player |-> player, new_achievements |-> <<>>]
        s1 == rule(s0, "first_draw",
                   player.total_drawings = 1 /\ session.correct)
        s2 == rule(s1, "speed_demon",
                   session.time_spent < 5 * TimeUnit /\ session.correct)
        s3 == rule(s2, "perfectionist", player.streak >= 10)
        s4 == rule(s3, "level_10", player.level >= 10)
        s5 == rule(s4, "abstract_master",
                   player.total_drawings - player.correct_guesses >= 5)
    IN  s5

\* a bug check_achievements could have: level_10 is given from level 9 on
check_achievements_level_9(player, session) ==
    LET s0 == [player |-> player, new_achievements |-> <<>>]
        s1 == rule(s0, "first_draw", player.total_drawings = 1)
        s2 == rule(s1, "speed_demon",
                   session.time_spent < 5 * TimeUnit /\ session.correct)
        s3 == rule(s2, "perfectionist", player.streak >= 10)
        s4 == rule(s3, "level_10", player.level >= 9)
        s5 == rule(s4, "abstract_master",
                   player.total_drawings - player.correct_guesses >= 5)
    IN  s5

\* AchievementSystem.check_achievements: the updated player and the returned
\* list
check_achievements(player, session) ==
    LET s0 == [player |-> player, new_achievements |-> <<>>]
        s1 == rule(s0, "first_draw", player.total_drawings = 1)
        s2 == rule(s1, "speed_demon",
                   session.time_spent < 5 * TimeUnit /\ session.correct)
        s3 == rule(s2, "perfectionist", player.streak >= 10)
        s4 == rule(s3, "level_10", player.level >= 10)
        s5 == rule(s4, "abstract_master",
                   player.total_drawings - player.correct_guesses >= 5)
    IN  s5

(****************************** GeminiService *****************************)
\* What the service sends back is kept as far as the code reads it.  A JSON
\* value is a dict (a function of its keys), a list, or absent; a text is a
\* str or JSON null, and a str is a sequence of tokens: a code fence (three
\* backquotes, with or without "json"), a run of words, or the rendering of
\* a JSON value.
NoDoc == [type |-> "none", items |-> <<>>]
JsonDict(items) == [type |-> "dict", items |-> items]
JsonList == [type |-> "list", items |-> <<>>]

fence_json == [kind |-> "fence json", raw |-> "fence json", doc |-> NoDoc]
fence == [kind |-> "fence", raw |-> "fence", doc |-> NoDoc]
words(raw) == [kind |-> "words", raw |-> raw, doc |-> NoDoc]
json(raw, doc) == [kind |-> "json", raw |-> raw, doc |-> doc]

Str(tokens) == [str |-> TRUE, tokens |-> tokens]
JsonNull == [str |-> FALSE, tokens |-> <<>>]

\* data.get(key, default)
get(data, key, default) ==
    IF key \in DOMAIN data.items THEN data.items[key] ELSE default

\* json.loads(text): the value, if the text is the rendering of one value
loads(tokens) ==
    IF Len(tokens) = 1 /\ tokens[1].kind = "json"
    THEN [ok |-> TRUE, doc |-> tokens[1].doc]
    ELSE [ok |-> FALSE, doc |-> NoDoc]

\* a reply to a request: status None if none came (RequestException), else
\* the HTTP status; the body of a 200 is JSON with or without
\* candidates[0].content.parts[0].text; a model listing names models
NoBody == [candidates |-> FALSE, text |-> JsonNull]
Unreachable == [status |-> None, body |-> NoBody, models |-> <<>>]
Refused(status) == [status |-> status, body |-> NoBody, models |-> <<>>]
Answer(text) ==
    [status |-> 200, body |-> [candidates |-> TRUE, text |-> text],
     models |-> <<>>]
Blocked == [status |-> 200, body |-> NoBody, models |-> <<>>]
Listing(models) == [status |-> 200, body |-> NoBody, models |-> models]

\* what analyze_drawing hands back: the dict returned, or the exception that
\* left it
NoResult ==
    [guesses |-> <<>>, correct |-> FALSE, confidence |-> 0, feedback |-> "",
     reaction |-> ""]
returns(result) == [raised |-> "", result |-> result]
raises(exception) == [raised |-> exception, result |-> NoResult]

\* the "except Exception" of Inkly/templates_static/gemini_service.py
fallback(target) ==
    [guesses |-> <<"desenho abstrato", "arte moderna", target>>,
     correct |-> FALSE,
     confidence |-> 30,
     feedback |-> "Hmm... sua criatividade me confundiu!",
     reaction |-> "confused"]

\* "Extrair JSON da resposta": the fences are cut off
strip_fences(tokens) ==
    LET t1 == IF tokens # <<>> /\ Head(tokens).kind = "fence json"
              THEN Tail(tokens) ELSE tokens
        t2 == IF t1 # <<>> /\ Head(t1).kind \in {"fence json", "fence"}
              THEN Tail(t1) ELSE t1
        t3 == IF t2 # <<>> /\ t2[Len(t2)].kind = "fence"
              THEN SubSeq(t2, 1, Len(t2) - 1) ELSE t2
    IN  t3

\* GeminiService.analyze_drawing of Inkly/templates_static: one POST; every
\* exception (no answer, a status that is not 2xx, no candidates, a text that
\* is not a str, or not JSON, or not a dict) ends in the fallback
analyze_drawing(reply, target) ==
    IF reply.status # 200 THEN returns(fallback(target))
    ELSE IF ~reply.body.candidates THEN returns(fallback(target))
    ELSE IF ~reply.body.text.str THEN returns(fallback(target))
    ELSE LET data == loads(strip_fences(reply.body.text.tokens))
         IN  IF ~data.ok \/ data.doc.type # "dict"
             THEN returns(fallback(target))
             ELSE returns(
                      [guesses |-> get(data.doc, "guesses",
                                       <<"nao sei", "algo", "desenho">>),
                       correct |-> get(data.doc, "correct", FALSE),
                       confidence |-> get(data.doc, "confidence", 50),
                       feedback |-> get(data.doc, "feedback", "Interessante!"),
                       reaction |-> get(data.doc, "reaction", "thinking")])

\* json.dumps(result) of a body without candidates
dumps(body) ==
    Str(<<json("{promptFeedback: {blockReason: SAFETY}}",
               JsonDict([promptFeedback |-> "SAFETY"]))>>)

\* GeminiService._extract_text_from_response: the text of the first
\* candidate as it is, str or not, or else the whole result serialized
extract_text_from_response(result) ==
    IF result.candidates THEN result.text ELSE dumps(result)

RECURSIVE first_200(_, _)
\* the loops over models, actions, bases and payloads: the JSON of the first
\* reply with status 200, the replies before it being passed over
first_200(replies, i) ==
    IF i > Len(replies) THEN [found |-> FALSE, result |-> NoBody]
    ELSE IF replies[i].status = 200
    THEN [found |-> TRUE, result |-> replies[i].body]
    ELSE first_200(replies, i + 1)

\* the positions of the tokens with a brace: text.find("{"), text.rfind("}")
braces(tokens) ==
    {i \in DOMAIN tokens :
        tokens[i].kind = "json" /\ tokens[i].doc.type = "dict"}

\* "tentar extrair JSON do texto retornado": the text, or else what stands
\* between its first "{" and its last "}"
parse(tokens) ==
    IF loads(tokens).ok THEN loads(tokens)
    ELSE IF braces(tokens) = {} THEN [ok |-> FALSE, doc |-> NoDoc]
    ELSE LET start == CHOOSE i \in braces(tokens) :
                          \A j \in braces(tokens) : i <= j
             end == CHOOSE i \in braces(tokens) :
                        \A j \in braces(tokens) : i >= j
         IN  loads(SubSeq(tokens, start, end))

\* a.lower() in b.lower(), on the strings of the model
lower(a) == IF a = "Gato" THEN "gato" ELSE a
lower_in(a, b) ==
    \/ lower(a) = lower(b)
    \/ a = ""
    \/ <<lower(a), lower(b)>> \in {<<"gato", "um gato astronauta">>,
                                  <<"pizza", "pizza voadora">>}

\* the labels of g[:5]
RECURSIVE labels(_, _)
labels(g, i) ==
    IF i > Len(g) \/ i > 5 THEN <<>>
    ELSE <<g[i].label>> \o labels(g, i + 1)

\* the end of analyze_drawing of gemini_service.py, from the result found
interpret(result, prompt_text) ==
    LET text == extract_text_from_response(result)
    IN  IF ~text.str THEN raises("AttributeError")
        ELSE LET parsed == parse(text.tokens)
             IN  IF parsed.ok /\ parsed.doc.type = "dict"
                 THEN LET g == IF get(parsed.doc, "guesses", <<>>) # <<>>
                               THEN get(parsed.doc, "guesses", <<>>)
                               ELSE get(parsed.doc, "predictions", <<>>)
                          guesses == labels(g, 1)
                      IN  returns(
                              [guesses |-> guesses,
                               confidence |-> IF g # <<>> THEN g[1].confidence
                                              ELSE 50,
                               feedback |-> get(parsed.doc, "feedback", ""),
                               reaction |-> get(parsed.doc, "reaction",
                                                "thinking"),
                               correct |->
                                   /\ guesses # <<>>
                                   /\ \/ lower_in(prompt_text, guesses[1])
                                      \/ lower_in(guesses[1], prompt_text)])
                 ELSE returns(
                          [guesses |-> IF text.tokens # <<>>
                                       THEN <<text.tokens[1].raw>> ELSE <<>>,
                           confidence |-> 50,
                           feedback |-> IF Len(text.tokens) > 1
                                        THEN text.tokens[2].raw ELSE "",
                           reaction |-> "thinking",
                           correct |-> FALSE])

\* GeminiService.analyze_drawing of gemini_service.py: the stub without an
\* API key; else the first round of attempts, and if none is answered with
\* 200 a second round with the models the listing names; the error result if
\* that finds nothing either; else the result is interpreted.  service is
\* what the service answers: to the first round, to the listing, to the
\* second round
analyze_drawing_endpoints(api_key, service, prompt_text) ==
    IF ~api_key
    THEN returns([guesses |-> <<>>, confidence |-> 50,
                   feedback |-> "No API key provided; returning stub result.",
                   reaction |-> "no-api-key", correct |-> FALSE])
    ELSE LET first == first_200(service.first, 1)
             second == IF service.listing.status = 200
                          /\ service.listing.models # <<>>
                       THEN first_200(service.second, 1)
                       ELSE [found |-> FALSE, result |-> NoBody]
             found == IF first.found THEN first ELSE second
         IN  IF ~found.found
             THEN returns([guesses |-> <<>>, confidence |-> 0,
                            feedback |-> "Request error",
                            reaction |-> "error", correct |-> FALSE])
             ELSE interpret(found.result, prompt_text)

(************ analyze_drawing of gemini_service.py, request by request *****)
\* The call is followed from one HTTP request to the next: frame holds its
\* locals (result, used_model, fallback_models), what it read from the
\* environment, the attempt it is about to make (at: the indices of the four
\* loops) and the number of requests sent.  last_exception, which only words
\* the feedback of the error result, and used_action, which is read nowhere,
\* are left out.
Bases ==
    <<"https://generativelanguage.googleapis.com/v1beta",
      "https://generativelanguage.googleapis.com/v1">>

\* actions, as GEMINI_API_MODE has it
actions(api_mode) ==
    IF api_mode = "rest" THEN <<"generate", "generateContent", "generateText">>
    ELSE <<"generateContent", "generateText">>

\* payloads_to_try: the shapes of payload_candidates_rest or
\* payload_candidates, by their first key
payloads_to_try(api_mode) ==
    IF api_mode = "rest"
    THEN <<"instances.input", "instances.content", "input", "prompt">>
    ELSE <<"contents", "text", "input", "prompt", "instances.text">>

\* no attempt is left
Over == [model_try |-> None, action |-> None, base |-> None, payload |-> None]

\* the first model from index m on that "if not model_try: continue" lets
\* through, or None
nonempty_from(models, m) ==
    IF \E i \in DOMAIN models : i >= m /\ models[i] # ""
    THEN CHOOSE i \in DOMAIN models :
             /\ i >= m /\ models[i] # ""
             /\ \A j \in DOMAIN models : (j >= m /\ models[j] # "") => i <= j
    ELSE None

\* the first attempt of a round over models
first_attempt(models) ==
    IF nonempty_from(models, 1) = None THEN Over
    ELSE [model_try |-> nonempty_from(models, 1), action |-> 1, base |-> 1,
          payload |-> 1]

\* the attempt after the payload loop of the attempt at has ended with
\* result None: the next base, else the next action, else the next model
after_payloads(models, api_mode, at) ==
    IF at.base < Len(Bases)
    THEN [at EXCEPT !.base = @ + 1, !.payload = 1]
    ELSE IF at.action < Len(actions(api_mode))
    THEN [at EXCEPT !.action = @ + 1, !.base = 1, !.payload = 1]
    ELSE first_attempt([i \in DOMAIN models |->
                           IF i > at.model_try THEN models[i] ELSE ""])

\* a bug the loops could have: the bases are gone through inside the
\* payloads
after_continue_base_first(models, api_mode, at) ==
    IF at.base < Len(Bases) THEN [at EXCEPT !.base = @ + 1]
    ELSE IF at.payload < Len(payloads_to_try(api_mode))
    THEN [at EXCEPT !.base = 1, !.payload = @ + 1]
    ELSE after_payloads(models, api_mode, at)

\* the attempt after "continue": the next payload, if there is one
after_continue(models, api_mode, at) ==
    IF at.payload < Len(payloads_to_try(api_mode))
    THEN [at EXCEPT !.payload = @ + 1]
    ELSE after_payloads(models, api_mode, at)

\* the answer to a POST: status None if none came (RequestException); the
\* body of a 200 is JSON null, or no JSON, or the JSON value result
Posted(status, body, result) ==
    [status |-> status, body |-> body, result |-> result]

\* the locals before the call
NoFrame ==
    [pc |-> "idle", api_mode |-> "", models_to_try |-> <<>>,
     decode_error |-> "", at |-> Over,
     result |-> [found |-> FALSE, result |-> NoBody],
     used_model |-> "None", fallback_models |-> <<>>, sent |-> 0,
     returned |-> returns(NoResult)]

\* "nenhum endpoint funcionou"
request_error ==
    returns([guesses |-> <<>>, confidence |-> 0, feedback |-> "Request error",
             reaction |-> "error", correct |-> FALSE])

\* analyze_drawing up to its first request: the stub without an API key,
\* else the first round, or the listing if models_to_try has no name.
\* decode_error is what resp.json() raises in the installed requests: a
\* RequestException (2.27 on) or a plain ValueError
analyze_drawing_called(api_mode, models_to_try, decode_error) ==
    /\ frame.pc = "idle"
    /\ frame' =
           IF ~gemini_service.api_key
           THEN [NoFrame EXCEPT
                    !.pc = "done",
                    !.returned =
                        returns([guesses |-> <<>>, confidence |-> 50,
                                 feedback |->
                                     "No API key provided; returning stub result.",
                                 reaction |-> "no-api-key",
                                 correct |-> FALSE])]
           ELSE [NoFrame EXCEPT
                    !.pc = IF first_attempt(models_to_try) = Over
                           THEN "listing" ELSE "first",
                    !.api_mode = api_mode,
                    !.models_to_try = models_to_try,
                    !.decode_error = decode_error,
                    !.at = first_attempt(models_to_try)]
    /\ UNCHANGED <<players, player_objs, sessions, multiplayer_rooms,
                   response, gemini_service, http_requests>>

\* the frame once the round it is in has no attempt left and no result: the
\* first round gives way to the listing, the second to the error result
round_over(f) ==
    IF f.pc = "first" THEN [f EXCEPT !.pc = "listing", !.at = Over]
    ELSE [f EXCEPT !.pc = "done", !.at = Over, !.returned = request_error]

\* the frame with the next attempt, if there is one
go_on(f, next) ==
    IF next = Over THEN round_over(f) ELSE [f EXCEPT !.at = next]

\* requests.post(url, json=payload, timeout=15) of the attempt at, answered
\* by reply, and the call up to its next request or its end
post(reply, prompt_text) ==
    /\ frame.pc \in {"first", "second"}
    /\ LET models == IF frame.pc = "first" THEN frame.models_to_try
                     ELSE frame.fallback_models
           sent == [frame EXCEPT !.sent = @ + 1]
       IN  frame' =
               IF reply.status = 200 /\ reply.body = "json" /\ reply.result.found
               THEN [sent EXCEPT
                        !.pc = "done",
                        !.result = reply.result,
                        !.used_model = models[frame.at.model_try],
                        !.returned = interpret(reply.result.result,
                                               prompt_text)]
               ELSE IF reply.status = 200 /\ reply.body = "json"
               THEN go_on([sent EXCEPT
                              !.used_model = models[frame.at.model_try]],
                          after_payloads(models, frame.api_mode, frame.at))
               ELSE IF reply.status = 200 /\ frame.decode_error = "ValueError"
               THEN IF frame.pc = "first"
                    THEN [sent EXCEPT !.pc = "done",
                                      !.returned = raises("ValueError")]
                    ELSE [sent EXCEPT !.pc = "done",
                                      !.returned = request_error]
               ELSE go_on(sent,
                          after_continue(models, frame.api_mode, frame.at))
    /\ UNCHANGED <<players, player_objs, sessions, multiplayer_rooms,
                   response, gemini_service, http_requests>>

\* name.replace("models/", "")
replace_models(name) ==
    IF name = "models/gemini-1.5-flash" THEN "gemini-1.5-flash"
    ELSE IF name = "models/" THEN ""
    ELSE name

\* fallback_models: the names of the listing, those without name passed over
RECURSIVE fallback_models_from(_, _)
fallback_models_from(available, i) ==
    IF i > Len(available) THEN <<>>
    ELSE (IF available[i] = "" THEN <<>>
          ELSE <<replace_models(available[i])>>)
         \o fallback_models_from(available, i + 1)

\* requests.get(models_url, timeout=10), answered by reply, and the call up
\* to its next request or its end; whatever is raised here is passed over
list_models(reply) ==
    /\ frame.pc = "listing"
    /\ LET sent == [frame EXCEPT !.sent = @ + 1]
           found == fallback_models_from(reply.models, 1)
       IN  frame' =
               IF reply.status # 200 \/ first_attempt(found) = Over
               THEN [sent EXCEPT
                        !.pc = "done",
                        !.fallback_models =
                            IF reply.status = 200 THEN found ELSE <<>>,
                        !.returned = request_error]
               ELSE [sent EXCEPT !.pc = "second",
                                 !.fallback_models = found,
                                 !.at = first_attempt(found)]
    /\ UNCHANGED <<players, player_objs, sessions, multiplayer_rooms,
                   response, gemini_service, http_requests>>

(******************************* GameManager *******************************)
\* a bug the lookup could have: an unknown id falls back on the first player
get_player_or_first(player_id) ==
    IF player_id \in DOMAIN players THEN players[player_id]
    ELSE IF player_objs # <<>> THEN 1 ELSE None

\* self.players.get(player_id): the object's reference, or None
get_player(player_id) ==
    IF player_id \in DOMAIN players THEN players[player_id] ELSE None

\* the scoring lines of complete_session
base_score(correct) == IF correct THEN 100 ELSE 20

\* a bug the time bonus could have: no max(0, ...)
time_bonus_unclamped(time_limit, time_spent) ==
    int((time_limit * TimeUnit - time_spent) * 5, TimeUnit)

time_bonus(time_limit, time_spent) ==
    max(0, int((time_limit * TimeUnit - time_spent) * 5, TimeUnit))

confidence_bonus(confidence) == int(confidence, 2)

\* the unlocks table of _unlock_brushes, in the dict's order
unlocks ==
    <<[level |-> 3, brush |-> NEON], [level |-> 5, brush |-> SPRAY],
      [level |-> 7, brush |-> MARKER], [level |-> 10, brush |-> SPARKLE]>>

RECURSIVE unlock_from(_, _)
\* the loop of _unlock_brushes from entry i on
unlock_from(player, i) ==
    IF i > Len(unlocks) THEN player
    ELSE unlock_from(IF player.level >= unlocks[i].level
                     THEN unlock_brush(player, unlocks[i].brush)
                     ELSE player,
                     i + 1)

\* GameManager._unlock_brushes
unlock_brushes(player) == unlock_from(player, 1)

RECURSIVE bonus_xp_from(_, _, _)
\* the loop over new_achievements in complete_session, from entry i on
bonus_xp_from(player, new_achievements, i) ==
    IF i > Len(new_achievements) THEN player
    ELSE bonus_xp_from(
             add_xp(player, ACHIEVEMENTS[new_achievements[i]]).player,
             new_achievements, i + 1)

\* a bug the bonus loop could have: it stops after the first achievement
bonus_xp_first(player, new_achievements) ==
    IF new_achievements = <<>> THEN player
    ELSE add_xp(player, ACHIEVEMENTS[new_achievements[1]]).player

\* "XP bonus de conquistas": one add_xp per new achievement, in order
bonus_xp(player, new_achievements) ==
    bonus_xp_from(player, new_achievements, 1)

\* the module with GeminiService: Inkly/templates_static/gemini_service.py
\* posts once; gemini_service.py tries endpoint after endpoint
ONE_POST == "Inkly/templates_static/gemini_service.py"
ENDPOINTS == "gemini_service.py"

\* GameManager.__init__, and the GeminiService of Inkly/templates_static,
\* which is not constructed without an API key
Init ==
    /\ players = <<>>
    /\ player_objs = <<>>
    /\ sessions = <<>>
    /\ multiplayer_rooms = <<>>
    /\ response = [op |-> "__init__", ok |-> TRUE]
    /\ gemini_service = [module |-> ONE_POST, api_key |-> TRUE]
    /\ http_requests = <<>>
    /\ frame = NoFrame

\* a bug create_player could have: the newcomer is handed the neon brush
create_player_unlocked(name) ==
    LET player_id == Len(player_objs) + 1
    IN  /\ player_objs' =
               Append(player_objs,
                      [Player(player_id, name) EXCEPT
                           !.brushes_unlocked = <<NORMAL, NEON>>])
        /\ players' = [k \in DOMAIN players \cup {player_id} |->
                          IF k = player_id THEN player_id ELSE players[k]]
        /\ response' = [op |-> "create_player", ok |-> TRUE,
                         player |-> player_id]
        /\ UNCHANGED <<sessions, multiplayer_rooms>>

\* GameManager.create_player: uuid4 is the next unused number, which is also
\* the new object's reference
create_player(name) ==
    LET player_id == Len(player_objs) + 1
    IN  /\ player_objs' = Append(player_objs, Player(player_id, name))
        /\ players' = [k \in DOMAIN players \cup {player_id} |->
                          IF k = player_id THEN player_id ELSE players[k]]
        /\ response' = [op |-> "create_player", ok |-> TRUE,
                         player |-> player_id]
        /\ UNCHANGED <<sessions, multiplayer_rooms>>

\* the difficulties start_session can pass on for a level; random.choice is
\* either entry
level_difficulty(level) ==
    IF level < 3 THEN {EASY}
    ELSE IF level < 7 THEN {MEDIUM}
    ELSE {MEDIUM, HARD}

\* a bug start_session could have: the caller's difficulty is passed on
start_session_hinted(player_id, difficulty, surprise_mode, prompt) ==
    LET player == get_player(player_id)
    IN  IF player = None
           THEN /\ response' = [op |-> "start_session", ok |-> FALSE,
                                 error |-> "ValueError"]
                /\ UNCHANGED <<players, player_objs, sessions,
                               multiplayer_rooms>>
           ELSE /\ prompt \in generate(difficulty, surprise_mode)
                /\ LET session_id == Len(sessions) + 1
                       session == [session_id |-> session_id,
                                   player |-> player,
                                   prompt |-> prompt,
                                   drawing_data |-> "None",
                                   ai_guesses |-> <<>>,
                                   correct |-> FALSE,
                                   time_spent |-> 0,
                                   score |-> 0]
                   IN  /\ sessions' = Append(sessions, session)
                       /\ response' = [op |-> "start_session", ok |-> TRUE,
                                        session |-> session_id]
                       /\ UNCHANGED <<players, player_objs,
                                      multiplayer_rooms>>

\* a bug start_session could have: the clock of the new session stands at
\* the time limit
start_session_timed(player_id, difficulty, surprise_mode, prompt) ==
    LET player == get_player(player_id)
    IN  IF player = None
           THEN /\ response' = [op |-> "start_session", ok |-> FALSE,
                                 error |-> "ValueError"]
                /\ UNCHANGED <<players, player_objs, sessions,
                               multiplayer_rooms>>
           ELSE /\ \E computed \in level_difficulty(player_objs[player].level) :
                      prompt \in generate(computed, surprise_mode)
                /\ LET session_id == Len(sessions) + 1
                       session == [session_id |-> session_id,
                                   player |-> player,
                                   prompt |-> prompt,
                                   drawing_data |-> "None",
                                   ai_guesses |-> <<>>,
                                   correct |-> FALSE,
                                   time_spent |-> prompt.time_limit * TimeUnit,
                                   score |-> 0]
                   IN  /\ sessions' = Append(sessions, session)
                       /\ response' = [op |-> "start_session", ok |-> TRUE,
                                        session |-> session_id]
                       /\ UNCHANGED <<players, player_objs,
                                      multiplayer_rooms>>

\* GameManager.start_session (Inkly/templates_static: unknown player raises);
\* prompt is the prompt PromptGenerator.generate returns in this call
start_session(player_id, difficulty, surprise_mode, prompt) ==
    LET player == get_player(player_id)
    IN  IF player = None
           THEN /\ response' = [op |-> "start_session", ok |-> FALSE,
                                 error |-> "ValueError"]
                /\ UNCHANGED <<players, player_objs, sessions,
                               multiplayer_rooms>>
           ELSE /\ \E computed \in level_difficulty(player_objs[player].level) :
                      prompt \in generate(computed, surprise_mode)
                /\ LET session_id == Len(sessions) + 1
                       session == [session_id |-> session_id,
                                   player |-> player,
                                   prompt |-> prompt,
                                   drawing_data |-> "None",
                                   ai_guesses |-> <<>>,
                                   correct |-> FALSE,
                                   time_spent |-> 0,
                                   score |-> 0]
                   IN  /\ sessions' = Append(sessions, session)
                       /\ response' = [op |-> "start_session", ok |-> TRUE,
                                        session |-> session_id]
                       /\ UNCHANGED <<players, player_objs,
                                      multiplayer_rooms>>

\* GameManager.start_session of templates_static/game_manager.py: a player
\* that is not found is created by create_player, which stores it under a
\* new uuid; then the object's id is set to the id supplied and the object
\* is stored under that id as well
start_session_provisioning(player_id, difficulty, surprise_mode, prompt) ==
    LET found == get_player(player_id)
        uuid == Len(player_objs) + 1
        player == IF found # None THEN found ELSE uuid
        created == [Player(uuid, "Player_" \o ToString(player_id)) EXCEPT
                       !.id = player_id]
        objs == IF found # None THEN player_objs
                ELSE Append(player_objs, created)
    IN  /\ \E computed \in level_difficulty(objs[player].level) :
               prompt \in generate(computed, surprise_mode)
        /\ player_objs' = objs
        /\ players' = IF found # None THEN players
                      ELSE [k \in DOMAIN players \cup {uuid, player_id} |->
                               IF k \in {uuid, player_id} THEN player
                               ELSE players[k]]
        /\ LET session_id == Len(sessions) + 1
               session == [session_id |-> session_id,
                           player |-> player,
                           prompt |-> prompt,
                           drawing_data |-> "None",
                           ai_guesses |-> <<>>,
                           correct |-> FALSE,
                           time_spent |-> 0,
                           score |-> 0]
           IN  /\ sessions' = Append(sessions, session)
               /\ response' = [op |-> "start_session", ok |-> TRUE,
                                session |-> session_id]
        /\ UNCHANGED multiplayer_rooms

\* a bug the statistics update could have: a miss is not counted as a drawing
update_stats_miss_uncounted(player, correct) ==
    [player EXCEPT !.total_drawings = IF correct THEN @ + 1 ELSE @,
                   !.correct_guesses = IF correct THEN @ + 1 ELSE @,
                   !.streak = IF correct THEN @ + 1 ELSE 0]

\* a bug the statistics update could have: a miss leaves the streak alone
update_stats_keep(player, correct) ==
    [player EXCEPT !.total_drawings = @ + 1,
                   !.correct_guesses = IF correct THEN @ + 1 ELSE @,
                   !.streak = IF correct THEN @ + 1 ELSE @]

\* a bug the statistics update could have: the streak goes up on a miss too
update_stats_streak_always(player, correct) ==
    [player EXCEPT !.total_drawings = @ + 1,
                   !.correct_guesses = IF correct THEN @ + 1 ELSE @,
                   !.streak = @ + 1]

\* "Atualiza estatisticas do jogador" in complete_session
update_stats(player, correct) ==
    [player EXCEPT !.total_drawings = @ + 1,
                   !.correct_guesses = IF correct THEN @ + 1 ELSE @,
                   !.streak = IF correct THEN @ + 1 ELSE 0]

\* a bug the accuracy could have: hits over misses
accuracy_over_misses(player) ==
    IF player.total_drawings - player.correct_guesses > 0
    THEN round(player.correct_guesses * 100 * 10,
               player.total_drawings - player.correct_guesses)
    ELSE 0

\* the "accuracy" entry of get_leaderboard (and of GET /api/player/{id}), in
\* tenths of a percent: round(correct_guesses / total_drawings * 100, 1), or
\* 0 for a player without drawings
accuracy(player) ==
    IF player.total_drawings > 0
    THEN round(player.correct_guesses * 100 * 10, player.total_drawings)
    ELSE 0

\* a bug the result could have: new_level is filled in whatever level_up is
result_level_always(session_id, score, base, bonus, conf, new_achievements, level_up, level) ==
    [op |-> "complete_session",
     ok |-> TRUE,
     session |-> session_id,
     rewards |-> [score |-> score,
                  xp |-> score,
                  breakdown |-> [base |-> base,
                                 time_bonus |-> bonus,
                                 confidence_bonus |-> conf]],
     achievements |-> new_achievements,
     level_up |-> level_up,
     new_level |-> level]

\* the dict complete_session returns; level is player.level at the return
result(session_id, score, base, bonus, conf, new_achievements, level_up, level) ==
    [op |-> "complete_session",
     ok |-> TRUE,
     session |-> session_id,
     rewards |-> [score |-> score,
                  xp |-> score,
                  breakdown |-> [base |-> base,
                                 time_bonus |-> bonus,
                                 confidence_bonus |-> conf]],
     achievements |-> new_achievements,
     level_up |-> level_up,
     new_level |-> IF level_up THEN level ELSE None]

\* a bug complete_session could have: the session is written before it is
\* looked up, so that an unknown id leaves a record behind
complete_session_unchecked(session_id, drawing_data, ai_result, time_spent) ==
    IF session_id \notin DOMAIN sessions
       THEN /\ response' = [op |-> "complete_session", ok |-> FALSE,
                             error |-> "ValueError"]
            /\ sessions' = Append(sessions,
                                  [session_id |-> session_id,
                                   player |-> None,
                                   prompt |-> Prompt("", EASY, 20),
                                   drawing_data |-> drawing_data,
                                   ai_guesses |-> ai_result.guesses,
                                   correct |-> ai_result.correct,
                                   time_spent |-> time_spent,
                                   score |-> 0])
            /\ UNCHANGED <<players, player_objs, multiplayer_rooms>>
       ELSE LET session0 == sessions[session_id]
                ref == session0.player
                player0 == player_objs[ref]
                base == base_score(ai_result.correct)
                bonus == time_bonus(session0.prompt.time_limit, time_spent)
                conf == confidence_bonus(ai_result.confidence)
                session == [session0 EXCEPT
                               !.drawing_data = drawing_data,
                               !.ai_guesses = ai_result.guesses,
                               !.correct = ai_result.correct,
                               !.time_spent = time_spent,
                               !.score = base + bonus + conf]
                player1 == update_stats(player0, session.correct)
                added == add_xp(player1, session.score)
                level_up == added.level_up
                player2 == unlock_brushes(added.player)
                checked == check_achievements(player2, session)
                new_achievements == checked.new_achievements
                player3 == bonus_xp(checked.player, new_achievements)
            IN  /\ sessions' = [sessions EXCEPT ![session_id] = session]
                /\ player_objs' = [player_objs EXCEPT ![ref] = player3]
                /\ response' = result(session_id, session.score, base, bonus,
                                      conf, new_achievements, level_up,
                                      player3.level)
                /\ UNCHANGED <<players, multiplayer_rooms>>

\* a bug complete_session could have: the time is written on every session
complete_session_all(session_id, drawing_data, ai_result, time_spent) ==
    IF session_id \notin DOMAIN sessions
       THEN /\ response' = [op |-> "complete_session", ok |-> FALSE,
                             error |-> "ValueError"]
            /\ UNCHANGED <<players, player_objs, sessions, multiplayer_rooms>>
       ELSE LET session0 == sessions[session_id]
                ref == session0.player
                player0 == player_objs[ref]
                base == base_score(ai_result.correct)
                bonus == time_bonus(session0.prompt.time_limit, time_spent)
                conf == confidence_bonus(ai_result.confidence)
                session == [session0 EXCEPT
                               !.drawing_data = drawing_data,
                               !.ai_guesses = ai_result.guesses,
                               !.correct = ai_result.correct,
                               !.time_spent = time_spent,
                               !.score = base + bonus + conf]
                player1 == update_stats(player0, session.correct)
                added == add_xp(player1, session.score)
                level_up == added.level_up
                player2 == unlock_brushes(added.player)
                checked == check_achievements(player2, session)
                new_achievements == checked.new_achievements
                player3 == bonus_xp(checked.player, new_achievements)
            IN  /\ sessions' =
                       [s \in DOMAIN sessions |->
                           IF s = session_id THEN session
                           ELSE [sessions[s] EXCEPT
                                    !.time_spent = time_spent + 1]]
                /\ player_objs' = [player_objs EXCEPT ![ref] = player3]
                /\ response' = result(session_id, session.score, base, bonus,
                                      conf, new_achievements, level_up,
                                      player3.level)
                /\ UNCHANGED <<players, multiplayer_rooms>>

\* GameManager.complete_session (the same code in both variants of the
\* manager): an unknown session raises before anything is written; otherwise
\* the session is written, the score computed, the player's statistics, xp,
\* brushes and achievements updated, and the result dict returned
complete_session(session_id, drawing_data, ai_result, time_spent) ==
    IF session_id \notin DOMAIN sessions
       THEN /\ response' = [op |-> "complete_session", ok |-> FALSE,
                             error |-> "ValueError"]
            /\ UNCHANGED <<players, player_objs, sessions, multiplayer_rooms>>
       ELSE LET session0 == sessions[session_id]
                ref == session0.player
                player0 == player_objs[ref]
                base == base_score(ai_result.correct)
                bonus == time_bonus(session0.prompt.time_limit, time_spent)
                conf == confidence_bonus(ai_result.confidence)
                session == [session0 EXCEPT
                               !.drawing_data = drawing_data,
                               !.ai_guesses = ai_result.guesses,
                               !.correct = ai_result.correct,
                               !.time_spent = time_spent,
                               !.score = base + bonus + conf]
                player1 == update_stats(player0, session.correct)
                added == add_xp(player1, session.score)
                level_up == added.level_up
                player2 == unlock_brushes(added.player)
                checked == check_achievements(player2, session)
                new_achievements == checked.new_achievements
                player3 == bonus_xp(checked.player, new_achievements)
            IN  /\ sessions' = [sessions EXCEPT ![session_id] = session]
                /\ player_objs' = [player_objs EXCEPT ![ref] = player3]
                /\ response' = result(session_id, session.score, base, bonus,
                                      conf, new_achievements, level_up,
                                      player3.level)
                /\ UNCHANGED <<players, multiplayer_rooms>>

\* GameManager.create_multiplayer_room; room_id is the str(uuid.uuid4())[:8]
\* drawn in this call.  Whether player_id is a player is not looked at
create_multiplayer_room(player_id, room_id) ==
    /\ multiplayer_rooms' =
           [k \in DOMAIN multiplayer_rooms \cup {room_id} |->
               IF k = room_id THEN <<player_id>> ELSE multiplayer_rooms[k]]
    /\ response' = [op |-> "create_multiplayer_room", ok |-> TRUE,
                     room |-> room_id]
    /\ UNCHANGED <<players, player_objs, sessions>>

\* a bug join could have: a room nobody created is opened by the join
join_multiplayer_room_opening(room_id, player_id) ==
    /\ multiplayer_rooms' =
           [k \in DOMAIN multiplayer_rooms \cup {room_id} |->
               IF k \notin DOMAIN multiplayer_rooms THEN <<player_id>>
               ELSE IF k = room_id
                       /\ ~Contains(multiplayer_rooms[k], player_id)
               THEN Append(multiplayer_rooms[k], player_id)
               ELSE multiplayer_rooms[k]]
    /\ response' = [op |-> "join_multiplayer_room", ok |-> TRUE,
                     room |-> room_id, player |-> player_id,
                     returned |-> room_id \in DOMAIN multiplayer_rooms]
    /\ UNCHANGED <<players, player_objs, sessions>>

\* a bug join could have: the id is appended whether it is a member or not
join_multiplayer_room_again(room_id, player_id) ==
    IF room_id \in DOMAIN multiplayer_rooms
    THEN /\ multiplayer_rooms' =
                [multiplayer_rooms EXCEPT ![room_id] = Append(@, player_id)]
         /\ response' = [op |-> "join_multiplayer_room", ok |-> TRUE,
                          room |-> room_id, player |-> player_id,
                          returned |-> TRUE]
         /\ UNCHANGED <<players, player_objs, sessions>>
    ELSE /\ response' = [op |-> "join_multiplayer_room", ok |-> TRUE,
                          room |-> room_id, player |-> player_id,
                          returned |-> FALSE]
         /\ UNCHANGED <<players, player_objs, sessions, multiplayer_rooms>>

\* GameManager.join_multiplayer_room; returned is the bool it returns
join_multiplayer_room(room_id, player_id) ==
    IF room_id \in DOMAIN multiplayer_rooms
    THEN /\ multiplayer_rooms' =
                [multiplayer_rooms EXCEPT
                     ![room_id] = IF Contains(@, player_id) THEN @
                                  ELSE Append(@, player_id)]
         /\ response' = [op |-> "join_multiplayer_room", ok |-> TRUE,
                          room |-> room_id, player |-> player_id,
                          returned |-> TRUE]
         /\ UNCHANGED <<players, player_objs, sessions>>
    ELSE /\ response' = [op |-> "join_multiplayer_room", ok |-> TRUE,
                          room |-> room_id, player |-> player_id,
                          returned |-> FALSE]
         /\ UNCHANGED <<players, player_objs, sessions, multiplayer_rooms>>

\* self.multiplayer_rooms.get(room_id, [])
room_ids(room_id) ==
    IF room_id \in DOMAIN multiplayer_rooms THEN multiplayer_rooms[room_id]
    ELSE <<>>

\* a bug the room listing could have: an id without player is not filtered
\* out and stands in the list as None
RECURSIVE room_players_unfiltered_from(_, _)
room_players_unfiltered_from(player_ids, i) ==
    IF i > Len(player_ids) THEN <<>>
    ELSE <<get_player(player_ids[i])>>
         \o room_players_unfiltered_from(player_ids, i + 1)

get_room_players_unfiltered(room_id) ==
    /\ response' = [op |-> "get_room_players", ok |-> TRUE,
                     room |-> room_id,
                     players |-> room_players_unfiltered_from(
                                     room_ids(room_id), 1)]
    /\ UNCHANGED <<players, player_objs, sessions, multiplayer_rooms>>

\* [self.get_player(pid) for pid in player_ids if self.get_player(pid)],
\* from entry i on
RECURSIVE room_players_from(_, _)
room_players_from(player_ids, i) ==
    IF i > Len(player_ids) THEN <<>>
    ELSE (IF get_player(player_ids[i]) # None
          THEN <<get_player(player_ids[i])>> ELSE <<>>)
         \o room_players_from(player_ids, i + 1)

\* GameManager.get_room_players: the list of the Player objects (their
\* references) returned
get_room_players(room_id) ==
    /\ response' = [op |-> "get_room_players", ok |-> TRUE,
                     room |-> room_id,
                     players |-> room_players_from(room_ids(room_id), 1)]
    /\ UNCHANGED <<players, player_objs, sessions, multiplayer_rooms>>

\* self.players.values(): the references stored under the keys, in the order
\* the keys were inserted.  A key is inserted when its object is created
\* (create_player) or right after that (the id start_session provisions), so
\* that the keys stand in the order of their references, and of two keys of
\* one object the uuid, which is the smaller in the model, stands first
RECURSIVE values_of(_)
values_of(keys) ==
    IF keys = {} THEN <<>>
    ELSE LET first == CHOOSE k \in keys : \A j \in keys :
                          \/ players[k] < players[j]
                          \/ players[k] = players[j] /\ k <= j
         IN  <<players[first]>> \o values_of(keys \ {first})

values == values_of(DOMAIN players)

\* key=lambda p: (p.level, p.correct_guesses): a's key is below b's
key_below(a, b) ==
    \/ a.level < b.level
    \/ a.level = b.level /\ a.correct_guesses < b.correct_guesses

\* a bug the ranking could have: sorted ascending and then turned round,
\* which turns the players of equal key round as well
RECURSIVE sorted_turned(_)
sorted_turned(refs) ==
    IF refs = <<>> THEN <<>>
    ELSE LET rest == sorted_turned(SubSeq(refs, 1, Len(refs) - 1))
             last == refs[Len(refs)]
             n == Cardinality(
                      {i \in DOMAIN rest :
                          key_below(player_objs[last], player_objs[rest[i]])})
         IN  SubSeq(rest, 1, n) \o <<last>> \o SubSeq(rest, n + 1, Len(rest))

\* sorted(..., key=..., reverse=True): the sort is stable, and reverse=True
\* keeps the elements of equal key in their original order; so the last
\* reference goes behind every earlier one whose key is not below its own
RECURSIVE sorted_reverse(_)
sorted_reverse(refs) ==
    IF refs = <<>> THEN <<>>
    ELSE LET rest == sorted_reverse(SubSeq(refs, 1, Len(refs) - 1))
             last == refs[Len(refs)]
             n == Cardinality(
                      {i \in DOMAIN rest :
                          ~key_below(player_objs[rest[i]], player_objs[last])})
         IN  SubSeq(rest, 1, n) \o <<last>> \o SubSeq(rest, n + 1, Len(rest))

\* list[:limit]: the first limit elements, or all but the last -limit
slice(list, limit) ==
    IF limit >= 0
    THEN SubSeq(list, 1, IF limit < Len(list) THEN limit ELSE Len(list))
    ELSE SubSeq(list, 1, max(0, Len(list) + limit))

\* GameManager.get_leaderboard: the list of dicts returned
get_leaderboard(limit) ==
    LET sorted_players == slice(sorted_reverse(values), limit)
    IN  /\ response' =
               [op |-> "get_leaderboard", ok |-> TRUE, limit |-> limit,
                leaderboard |->
                    [i \in 1..Len(sorted_players) |->
                        LET p == player_objs[sorted_players[i]]
                        IN  [rank |-> i,
                             name |-> p.name,
                             level |-> p.level,
                             xp |-> p.xp,
                             total_drawings |-> p.total_drawings,
                             accuracy |-> accuracy(p),
                             streak |-> p.streak]]]
        /\ UNCHANGED <<players, player_objs, sessions, multiplayer_rooms>>

(***************************** the requests ********************************)
Names == {"Ana"}
Difficulties == {EASY, MEDIUM, HARD}
DrawingData == {"data:image/png;base64,iVBOR"}
Guesses == {<<"gato", "cachorro">>}
\* confidence is an integer 0..100
Confidences == {55, 80}
\* 3 s, 5 s, 20.25 s
TimesSpent == {12, 20, 81}
\* the prompts the generator is let draw: one text of each pool
Drawn ==
    {Prompt("gato", EASY, 20), Prompt("dragao", MEDIUM, 25),
     Prompt("caos", HARD, 30), Prompt("pizza voadora", MEDIUM, 30)}
\* the classifier's answers: a hit at 80 % and a miss at 55 %
AiResults ==
    {[guesses |-> g, correct |-> c = 80, confidence |-> c] :
        g \in Guesses, c \in Confidences}

RECURSIVE drawings_from(_)
\* the completions made so far by the players r..
drawings_from(r) ==
    IF r > Len(player_objs) THEN 0
    ELSE player_objs[r].total_drawings + drawings_from(r + 1)

\* Spec follows the sessions of one player
CreatePlayer ==
    /\ player_objs = <<>>
    /\ \E name \in Names : create_player(name)
    /\ UNCHANGED serving

StartSession ==
    /\ Len(sessions) < MaxSessions
    /\ \E player_id \in DOMAIN players \cup {None} :
       \E difficulty \in Difficulties :
       \E surprise_mode \in BOOLEAN :
       \E prompt \in Drawn :
           start_session(player_id, difficulty, surprise_mode, prompt)
    /\ UNCHANGED serving

CompleteSession ==
    /\ drawings_from(1) < MaxCompletions
    /\ \E session_id \in 1..(Len(sessions) + 1) :
       \E drawing_data \in DrawingData :
       \E ai_result \in AiResults :
       \E time_spent \in TimesSpent :
           complete_session(session_id, drawing_data, ai_result, time_spent)
    /\ UNCHANGED serving

Next == CreatePlayer \/ StartSession \/ CompleteSession

Spec == Init /\ [][Next]_vars

(*************** one player's career on one session **********************)
\* The long runs (a streak of 10, level 10, five misses) need some fifteen
\* completions: SpecCareer follows one player who keeps completing the one
\* session they started, which complete_session accepts.
\* The completions tried: correct at once, correct in 5 s, wrong at once
\* (each with confidence 100), and wrong in 31 s with confidence 0.
CareerResults ==
    {[correct |-> TRUE, confidence |-> 100, time_spent |-> 0],
     [correct |-> TRUE, confidence |-> 100, time_spent |-> 20],
     [correct |-> FALSE, confidence |-> 100, time_spent |-> 0],
     [correct |-> FALSE, confidence |-> 0, time_spent |-> 124]}

CareerCreate ==
    /\ player_objs = <<>>
    /\ \E name \in Names : create_player(name)
    /\ UNCHANGED serving

CareerStart ==
    /\ sessions = <<>>
    /\ \E player_id \in DOMAIN players :
       \E surprise_mode \in BOOLEAN :
       \E prompt \in Drawn :
           start_session(player_id, MEDIUM, surprise_mode, prompt)
    /\ UNCHANGED serving

CareerComplete ==
    /\ UNCHANGED serving
    /\ \E session_id \in DOMAIN sessions :
       /\ player_objs[sessions[session_id].player].total_drawings < MaxDrawings
       /\ \E drawing_data \in DrawingData :
          \E guesses \in Guesses :
          \E r \in CareerResults :
              complete_session(session_id, drawing_data,
                               [guesses |-> guesses, correct |-> r.correct,
                                confidence |-> r.confidence],
                               r.time_spent)

NextCareer == CareerCreate \/ CareerStart \/ CareerComplete

SpecCareer == Init /\ [][NextCareer]_vars

(****************** one player climbing the levels ************************)
\* A player reaches level 7 after eight drawings at best.  SpecLevels follows
\* one player who completes their first session again and again, correctly
\* and with confidence 100, and who starts further sessions on the way, at
\* whatever level they have reached.
\* the times taken: none, and 5 s
LevelsTimes == {0, 20}

LevelsCreate ==
    /\ player_objs = <<>>
    /\ \E name \in Names : create_player(name)
    /\ UNCHANGED serving

LevelsStart ==
    /\ Len(sessions) < MaxSessions
    /\ \E player_id \in DOMAIN players :
       \E difficulty \in Difficulties :
       \E surprise_mode \in BOOLEAN :
       \E prompt \in Drawn :
           start_session(player_id, difficulty, surprise_mode, prompt)
    /\ UNCHANGED serving

LevelsComplete ==
    /\ sessions # <<>>
    /\ player_objs[sessions[1].player].total_drawings < MaxClimb
    /\ \E drawing_data \in DrawingData :
       \E guesses \in Guesses :
       \E time_spent \in LevelsTimes :
           complete_session(1, drawing_data,
                            [guesses |-> guesses, correct |-> TRUE,
                             confidence |-> 100],
                            time_spent)
    /\ UNCHANGED serving

NextLevels == LevelsCreate \/ LevelsStart \/ LevelsComplete

SpecLevels == Init /\ [][NextLevels]_vars

(******************* several players and the ranking **********************)
\* SpecLobby follows the players who register one after the other, start
\* one session each and complete it once, while one of them opens a room
\* and the leaderboard is read.
MaxPlayers == 2
\* the names the players register under, in the order they come
LobbyNames == <<"Ana", "Bia", "Caio", "Davi">>
\* an id no player has: the rooms take any id
Ghost == 99
\* the ids uuid4 gives the rooms, and one that no room has
RoomIds == {"3f2a9c1e", "b07d44a2"}
NoRoom == "00000000"
\* the limits asked of the leaderboard
Limits == {-1, 0, 1, 2, 10}
\* the completions tried: a hit at once (level 2, one correct guess), a miss
\* at once that scores 170 (level 2, none), a miss in 20.25 s (level 1)
LobbyResults ==
    {[correct |-> TRUE, confidence |-> 100, time_spent |-> 0],
     [correct |-> FALSE, confidence |-> 100, time_spent |-> 0],
     [correct |-> FALSE, confidence |-> 55, time_spent |-> 81]}

LobbyCreate ==
    /\ Len(player_objs) < MaxPlayers
    /\ create_player(LobbyNames[Len(player_objs) + 1])
    /\ UNCHANGED serving

LobbyStart ==
    /\ \E player_id \in DOMAIN players :
       /\ \A s \in DOMAIN sessions : sessions[s].player # players[player_id]
       /\ \E prompt \in Drawn :
              start_session(player_id, MEDIUM, FALSE, prompt)
    /\ UNCHANGED serving

LobbyComplete ==
    /\ \E session_id \in DOMAIN sessions :
       /\ sessions[session_id].drawing_data = "None"
       /\ \E drawing_data \in DrawingData :
          \E guesses \in Guesses :
          \E r \in LobbyResults :
              complete_session(session_id, drawing_data,
                               [guesses |-> guesses, correct |-> r.correct,
                                confidence |-> r.confidence],
                               r.time_spent)
    /\ UNCHANGED serving

\* one room is opened
LobbyCreateRoom ==
    /\ multiplayer_rooms = <<>>
    /\ \E player_id \in DOMAIN players \cup {Ghost} :
       \E room_id \in RoomIds :
           create_multiplayer_room(player_id, room_id)
    /\ UNCHANGED serving

LobbyLeaderboard ==
    /\ \E limit \in Limits : get_leaderboard(limit)
    /\ UNCHANGED serving

NextLobby ==
    \/ LobbyCreate
    \/ LobbyStart
    \/ LobbyComplete
    \/ LobbyCreateRoom
    \/ LobbyLeaderboard

SpecLobby == Init /\ [][NextLobby]_vars

(**************************** the rooms ***********************************)
\* SpecRooms follows the players who register, open rooms and join them,
\* with their own ids and with an id no player has, while the rooms are
\* read.  The uuid4 prefixes drawn for the rooms are taken not to repeat.
RoomsCreatePlayer ==
    /\ Len(player_objs) < MaxPlayers
    /\ create_player(LobbyNames[Len(player_objs) + 1])
    /\ UNCHANGED serving

RoomsCreate ==
    /\ \E player_id \in DOMAIN players \cup {Ghost} :
       \E room_id \in RoomIds \ DOMAIN multiplayer_rooms :
           create_multiplayer_room(player_id, room_id)
    /\ UNCHANGED serving

RoomsJoin ==
    /\ \E room_id \in RoomIds \cup {NoRoom} :
       \E player_id \in DOMAIN players \cup {Ghost} :
           join_multiplayer_room(room_id, player_id)
    /\ UNCHANGED serving

RoomsPlayers ==
    /\ \E room_id \in RoomIds \cup {NoRoom} : get_room_players(room_id)
    /\ UNCHANGED serving

NextRooms == RoomsCreatePlayer \/ RoomsCreate \/ RoomsJoin \/ RoomsPlayers

SpecRooms == Init /\ [][NextRooms]_vars

(******************* the manager that provisions players *******************)
\* SpecGuests follows the manager of templates_static/game_manager.py:
\* players register, sessions are started for them and for ids that no
\* player has, the sessions are completed once, and the leaderboard is read.
\* the ids the clients supply: no uuid of the model is that large
GuestIds == {101, 102}

GuestsCreate ==
    /\ Len(player_objs) < MaxPlayers
    /\ create_player(LobbyNames[Len(player_objs) + 1])
    /\ UNCHANGED serving

GuestsStart ==
    /\ Len(sessions) < MaxSessions
    /\ \E player_id \in DOMAIN players \cup GuestIds :
       \E prompt \in Drawn :
           start_session_provisioning(player_id, MEDIUM, FALSE, prompt)
    /\ UNCHANGED serving

GuestsComplete ==
    /\ \E session_id \in DOMAIN sessions :
       /\ sessions[session_id].drawing_data = "None"
       /\ \E drawing_data \in DrawingData :
          \E guesses \in Guesses :
          \E r \in LobbyResults :
              complete_session(session_id, drawing_data,
                               [guesses |-> guesses, correct |-> r.correct,
                                confidence |-> r.confidence],
                               r.time_spent)
    /\ UNCHANGED serving

\* GET /api/leaderboard with its default limit
GuestsLeaderboard ==
    /\ get_leaderboard(10)
    /\ UNCHANGED serving

NextGuests ==
    GuestsCreate \/ GuestsStart \/ GuestsComplete \/ GuestsLeaderboard

SpecGuests == Init /\ [][NextGuests]_vars

(********************* the app: POST /api/session/complete ******************)
\* what the service is let answer to the one POST of ONE_POST: nothing, a
\* refusal, the JSON asked for, the same in a fence, prose, a JSON list, a
\* null text, and a result without candidates
asked_for ==
    JsonDict([guesses |-> <<"gato", "felino", "leao">>, correct |-> TRUE,
              confidence |-> 90, feedback |-> "Que gato lindo!",
              reaction |-> "happy"])

Replies ==
    <<Unreachable,
      Refused(503),
      Answer(Str(<<json("{guesses: [gato, ...], correct: true, ...}", asked_for)>>)),
      Answer(Str(<<fence_json,
                   json("{guesses: [gato, ...], correct: true, ...}", asked_for),
                   fence>>)),
      Answer(Str(<<words("Acho que e um gato.")>>)),
      Answer(Str(<<json("[1, 2]", JsonList)>>)),
      Answer(JsonNull),
      Blocked>>

\* the JSON gemini_service.py asks for: guesses as {label, confidence}
labelled ==
    JsonDict([guesses |-> <<[label |-> "Gato", confidence |-> 90],
                            [label |-> "cachorro", confidence |-> 40]>>,
              feedback |-> "Que gato lindo!", reaction |-> "happy"])

\* what the service is let answer to the attempts of ENDPOINTS: nothing at
\* all; the JSON asked for at the second attempt; the same among prose, from
\* a model the listing names; prose; a null text; a result without
\* candidates
Endpoints ==
    <<[first |-> <<Unreachable, Refused(404)>>, listing |-> Unreachable,
       second |-> <<>>],
      [first |-> <<Refused(404),
                   Answer(Str(<<json("{guesses: [{label: Gato, ...}]}",
                                     labelled)>>))>>,
       listing |-> Unreachable, second |-> <<>>],
      [first |-> <<Refused(404)>>,
       listing |-> Listing(<<"models/gemini-pro">>),
       second |-> <<Answer(Str(<<words("Claro!"),
                                 json("{guesses: [{label: Gato, ...}]}",
                                      labelled),
                                 words("Espero ter ajudado.")>>))>>],
      [first |-> <<Answer(Str(<<words("Acho que e um gato.")>>))>>,
       listing |-> Unreachable, second |-> <<>>],
      [first |-> <<Answer(JsonNull)>>, listing |-> Unreachable,
       second |-> <<>>],
      [first |-> <<Blocked>>, listing |-> Unreachable, second |-> <<>>]>>

\* the apps: Inkly/templates_static with its key, and src with or without
GeminiServices ==
    {[module |-> ONE_POST, api_key |-> TRUE],
     [module |-> ENDPOINTS, api_key |-> TRUE],
     [module |-> ENDPOINTS, api_key |-> FALSE]}

\* the answers the app's classifier can meet
Services == IF gemini_service.module = ONE_POST THEN Replies ELSE Endpoints

\* gemini_service.analyze_drawing(image_data, session.prompt.text)
classify(service, target) ==
    IF gemini_service.module = ONE_POST
    THEN analyze_drawing(service, target)
    ELSE analyze_drawing_endpoints(gemini_service.api_key, service, target)

\* game_manager = GameManager(); gemini_service = GeminiService()
InitServe ==
    /\ players = <<>>
    /\ player_objs = <<>>
    /\ sessions = <<>>
    /\ multiplayer_rooms = <<>>
    /\ response = [op |-> "__init__", ok |-> TRUE]
    /\ gemini_service \in GeminiServices
    /\ http_requests = <<>>
    /\ frame = NoFrame

\* a completion request has arrived and its body has been read; status is
\* None until the handler has answered
receive(session_id, drawing_data, time_spent) ==
    /\ http_requests' =
           Append(http_requests,
                  [session_id |-> session_id, drawing_data |-> drawing_data,
                   time_spent |-> time_spent, status |-> None,
                   analyzed |-> FALSE, raised |-> ""])
    /\ UNCHANGED <<players, player_objs, sessions, multiplayer_rooms,
                   response, gemini_service, frame>>

\* a bug the handler could have: it gives way to the other requests between
\* writing the session and updating the player, and this is its first half
api_session_complete_halfway(i, service) ==
    LET request == http_requests[i]
    IN  /\ request.status = None
        /\ request.session_id \in DOMAIN sessions
        /\ sessions' = [sessions EXCEPT
                           ![request.session_id].drawing_data =
                               request.drawing_data,
                           ![request.session_id].time_spent =
                               request.time_spent]
        /\ http_requests' = [http_requests EXCEPT ![i].analyzed = TRUE,
                                                  ![i].status = 200]
        /\ UNCHANGED <<players, player_objs, multiplayer_rooms, response,
                       gemini_service, frame>>

\* the handler of POST /api/session/complete, from the body read to the
\* answer; it awaits nothing on the way, so that the event loop runs it in
\* one piece.  raised is the exception that reached "except Exception", which
\* answers 500
api_session_complete(i, service) ==
    LET request == http_requests[i]
    IN  /\ request.status = None
        /\ UNCHANGED <<gemini_service, frame>>
        /\ IF request.session_id \notin DOMAIN sessions
           THEN /\ http_requests' =
                       [http_requests EXCEPT ![i].raised = "HTTPException",
                                             ![i].status = 500]
                /\ UNCHANGED <<players, player_objs, sessions,
                               multiplayer_rooms, response>>
           ELSE LET ai_result ==
                        classify(service,
                                 sessions[request.session_id].prompt.text)
                IN  IF ai_result.raised # ""
                    THEN /\ http_requests' =
                                [http_requests EXCEPT
                                     ![i].analyzed = TRUE,
                                     ![i].raised = ai_result.raised,
                                     ![i].status = 500]
                         /\ UNCHANGED <<players, player_objs, sessions,
                                        multiplayer_rooms, response>>
                    ELSE /\ complete_session(request.session_id,
                                             request.drawing_data,
                                             ai_result.result,
                                             request.time_spent)
                         /\ http_requests' =
                                [http_requests EXCEPT ![i].analyzed = TRUE,
                                                      ![i].status = 200]

\* SpecServe follows the app with one player and one session, and the
\* completion requests for that session and for a session id nobody has
ServeCreate ==
    /\ player_objs = <<>>
    /\ \E name \in Names : create_player(name)
    /\ UNCHANGED serving

ServeStart ==
    /\ sessions = <<>>
    /\ \E player_id \in DOMAIN players :
       \E surprise_mode \in BOOLEAN :
       \E prompt \in Drawn :
           start_session(player_id, MEDIUM, surprise_mode, prompt)
    /\ UNCHANGED serving

ServeReceive ==
    /\ Len(http_requests) < MaxRequests
    /\ \E session_id \in 1..2 :
       \E drawing_data \in DrawingData :
           receive(session_id, drawing_data, 3 * TimeUnit)

ServeComplete ==
    \E i \in DOMAIN http_requests :
    \E k \in DOMAIN Services :
        api_session_complete(i, Services[k])

NextServe == ServeCreate \/ ServeStart \/ ServeReceive \/ ServeComplete

SpecServe == InitServe /\ [][NextServe]_vars

(***************** one call of analyze_drawing, step by step ***************)
\* SpecEndpoints follows one call of analyze_drawing.  Every request has a
\* timeout, so that the call always takes its next step.
MaxListed == 1
\* GEMINI_API_MODE
ApiModes == {"compat", "rest"}
\* models_to_try with the defaults, and with GEMINI_MODEL_ALT set to nothing
ModelsToTry ==
    {<<"gemini-2.0", "gemini-2.0-mini", "text-bison-001">>,
     <<"gemini-2.0", "gemini-2.0-mini", "">>}
\* what the service is let answer to a POST: nothing, a refusal, a 200 with
\* the JSON asked for, with JSON null, with a page that is no JSON
Posts ==
    <<Posted(None, "", [found |-> FALSE, result |-> NoBody]),
      Posted(404, "json", [found |-> FALSE, result |-> NoBody]),
      Posted(200, "json",
             [found |-> TRUE,
              result |-> Answer(Str(<<json("{guesses: [{label: Gato, ...}]}",
                                          labelled)>>)).body]),
      Posted(200, "json", [found |-> FALSE, result |-> NoBody]),
      Posted(200, "html", [found |-> FALSE, result |-> NoBody])>>
\* the names a listing can hold: a model, the bare prefix, no name
Listed == {"models/gemini-1.5-flash", "models/", ""}
\* what the service is let answer to the listing
Listings ==
    {Unreachable, Refused(403)}
        \cup {Listing(models) :
                 models \in UNION {[1..n -> Listed] : n \in 0..MaxListed}}

InitEndpoints ==
    /\ players = <<>>
    /\ player_objs = <<>>
    /\ sessions = <<>>
    /\ multiplayer_rooms = <<>>
    /\ response = [op |-> "__init__", ok |-> TRUE]
    /\ gemini_service \in {[module |-> ENDPOINTS, api_key |-> key] :
                              key \in BOOLEAN}
    /\ http_requests = <<>>
    /\ frame = NoFrame

EndpointsCall ==
    \E api_mode \in ApiModes :
    \E models_to_try \in ModelsToTry :
    \E decode_error \in {"RequestException", "ValueError"} :
        analyze_drawing_called(api_mode, models_to_try, decode_error)

EndpointsPost == \E k \in DOMAIN Posts : post(Posts[k], "gato")

EndpointsList == \E reply \in Listings : list_models(reply)

NextEndpoints == EndpointsCall \/ EndpointsPost \/ EndpointsList

SpecEndpoints ==
    InitEndpoints /\ [][NextEndpoints]_vars /\ WF_vars(NextEndpoints)

(******************************* the claims *******************************)
\* the session has been completed: its drawing payload is set
completed(s) == sessions[s].drawing_data # "None"

\* C1: a session is completed at most once: a complete_session call on a
\* session that has already been completed is rejected and changes neither
\* the session nor any player.
C1_CompletedOnce ==
    [][\A s \in DOMAIN sessions : \A d \in DrawingData :
       \A ai \in AiResults : \A t \in TimesSpent :
           (completed(s) /\ complete_session(s, d, ai, t))
               => /\ ~response'.ok
                  /\ sessions'[s] = sessions[s]
                  /\ player_objs' = player_objs]_vars

\* the sessions of player r that have been completed
completed_of(r) ==
    {s \in DOMAIN sessions : sessions[s].player = r /\ completed(s)}

\* C2: between calls every player has 0 <= xp < level*100.  Stated for the
\* players none of whose sessions was completed twice, so that what refutes
\* it owes nothing to C1.
C2_XpBelowThreshold ==
    \A r \in DOMAIN player_objs :
        Cardinality(completed_of(r)) = player_objs[r].total_drawings
            => /\ 0 <= player_objs[r].xp
               /\ player_objs[r].xp < player_objs[r].level * 100

\* a step that is a complete_session call that returned its result
Completion == response'.op = "complete_session" /\ response'.ok

\* the session that call completed
done == response'.session

\* the reference of the player owning it
owner == sessions[done].player

\* the step is the call complete_session(done, .., confidence, ..): the drawing,
\* the guesses, the classification and the time are those the call wrote
\* on the session; the confidence is written nowhere
CompletionWith(confidence) ==
    complete_session(done, sessions'[done].drawing_data,
                     [guesses |-> sessions'[done].ai_guesses,
                      correct |-> sessions'[done].correct,
                      confidence |-> confidence],
                     sessions'[done].time_spent)

\* C3 as claimed: the score is base + time bonus + confidence bonus, with
\* time_bonus = max(0, round((time_limit - time_spent) * 5)), and the
\* breakdown returns the three parts.
C3_ScoreRounded ==
    [][Completion =>
          /\ \E c \in Confidences : CompletionWith(c)
          /\ \A c \in Confidences : CompletionWith(c) =>
                 LET limit == sessions[done].prompt.time_limit
                     t == sessions'[done].time_spent
                     b == IF sessions'[done].correct THEN 100 ELSE 20
                     tb == max(0, round((limit * TimeUnit - t) * 5, TimeUnit))
                     cb == c \div 2
                 IN  /\ sessions'[done].score = b + tb + cb
                     /\ response'.rewards.score = b + tb + cb
                     /\ response'.rewards.breakdown =
                            [base |-> b, time_bonus |-> tb,
                             confidence_bonus |-> cb]]_vars

\* C3 as amended: the same with the fraction of the time bonus dropped, not
\* rounded: time_bonus = max(0, floor((time_limit - time_spent) * 5)).
C3_ScoreTruncated ==
    [][Completion =>
          /\ \E c \in Confidences : CompletionWith(c)
          /\ \A c \in Confidences : CompletionWith(c) =>
                 LET limit == sessions[done].prompt.time_limit
                     t == sessions'[done].time_spent
                     b == IF sessions'[done].correct THEN 100 ELSE 20
                     tb == IF t >= limit * TimeUnit THEN 0
                           ELSE ((limit * TimeUnit - t) * 5) \div TimeUnit
                     cb == c \div 2
                 IN  /\ sessions'[done].score = b + tb + cb
                     /\ response'.rewards.score = b + tb + cb
                     /\ response'.rewards.breakdown =
                            [base |-> b, time_bonus |-> tb,
                             confidence_bonus |-> cb]]_vars

\* C3's case: a completion has returned for a time that leaves a fraction of
\* a point: 20.25 s on a 25 s prompt, 23.75 points
C3_Witness ==
    /\ response.op = "complete_session" /\ response.ok
    /\ sessions[response.session].time_spent = 81
    /\ sessions[response.session].prompt.time_limit = 25
    /\ response.rewards.breakdown.time_bonus = 23

\* C4: a fresh player (no drawings, level 1, xp 0) completing correctly in
\* 3 s on a 20 s prompt with confidence 80 scores 225 = 100 + 85 + 40, unlocks
\* exactly first_draw and speed_demon, and receives 225, 50 and 100 xp one
\* after the other: level 2 with 125, then 175, then level 3 with 75, which
\* is 375 in all.
C4_FirstDrawing ==
    [][(/\ Completion
        /\ CompletionWith(80)
        /\ player_objs[owner].total_drawings = 0
        /\ sessions[done].prompt.time_limit = 20
        /\ sessions'[done].correct
        /\ sessions'[done].time_spent = 3 * TimeUnit)
           => /\ sessions'[done].score = 225
              /\ response'.rewards.breakdown =
                     [base |-> 100, time_bonus |-> 85, confidence_bonus |-> 40]
              /\ response'.achievements = <<"first_draw", "speed_demon">>
              /\ player_objs'[owner].achievements =
                     <<"first_draw", "speed_demon">>
              /\ player_objs'[owner].level = 3
              /\ player_objs'[owner].xp = 75]_vars

\* C4's case: that completion has returned
C4_Witness ==
    /\ response.op = "complete_session" /\ response.ok
    /\ response.rewards.score = 225
    /\ sessions[response.session].correct
    /\ sessions[response.session].time_spent = 3 * TimeUnit
    /\ sessions[response.session].prompt.time_limit = 20
    /\ player_objs[sessions[response.session].player].total_drawings = 1

\* C5: a completion classified incorrect leaves the streak 0, one classified
\* correct leaves it one more than it was.
C5_Streak ==
    [][Completion =>
          player_objs'[owner].streak =
              IF sessions'[done].correct
              THEN player_objs[owner].streak + 1
              ELSE 0]_vars

\* C5's case: a miss has just reset a streak that followed ten hits in a row
C5_Witness ==
    /\ response.op = "complete_session" /\ response.ok
    /\ ~sessions[response.session].correct
    /\ player_objs[sessions[response.session].player].streak = 0
    /\ Contains(player_objs[sessions[response.session].player].achievements,
                "perfectionist")

\* C6: a player's achievement list never loses an id and never holds one
\* twice.
C6_AchievementsKept ==
    [][\A r \in DOMAIN player_objs :
          /\ \A i \in DOMAIN player_objs[r].achievements :
                 Contains(player_objs'[r].achievements,
                          player_objs[r].achievements[i])
          /\ \A i, j \in DOMAIN player_objs'[r].achievements :
                 i # j => player_objs'[r].achievements[i] #
                          player_objs'[r].achievements[j]]_vars

\* C6's case: a player holding four achievements completes once more
C6_Witness ==
    /\ response.op = "complete_session" /\ response.ok
    /\ response.achievements = <<>>
    /\ Len(player_objs[sessions[response.session].player].achievements) = 4

\* the ids check_achievements has a rule for
Rules ==
    {"first_draw", "speed_demon", "perfectionist", "level_10",
     "abstract_master"}

\* the xp a player has received in all: the thresholds passed, plus xp
lifetime_xp(player) == 50 * (player.level - 1) * player.level + player.xp

RECURSIVE sum_xp(_)
\* the bonuses of a set of achievement ids, summed
sum_xp(ids) ==
    IF ids = {} THEN 0
    ELSE LET id == CHOOSE x \in ids : TRUE
         IN  ACHIEVEMENTS[id] + sum_xp(ids \ {id})

\* C7: a completion unlocks exactly the rules whose condition holds on the
\* updated player and session (the level being the one add_xp(score) left)
\* and which the player did not hold; it appends them to the player's list
\* and grants the score and their bonuses and no other xp, so that no bonus
\* is granted twice.
C7_NewAchievements ==
    [][Completion =>
          LET before == player_objs[owner]
              after == player_objs'[owner]
              session == sessions'[done]
              level == IF before.xp + session.score >= before.level * 100
                       THEN before.level + 1 ELSE before.level
              holds ==
                  [first_draw |-> after.total_drawings = 1,
                   speed_demon |->
                       session.time_spent < 5 * TimeUnit /\ session.correct,
                   perfectionist |-> after.streak >= 10,
                   level_10 |-> level >= 10,
                   abstract_master |->
                       after.total_drawings - after.correct_guesses >= 5]
              new == {id \in Rules :
                         holds[id] /\ ~Contains(before.achievements, id)}
              returned == response'.achievements
          IN  /\ {returned[i] : i \in DOMAIN returned} = new
              /\ Len(returned) = Cardinality(new)
              /\ after.achievements = before.achievements \o returned
              /\ lifetime_xp(after) =
                     lifetime_xp(before) + session.score + sum_xp(new)]_vars

\* C7's case: a completion has unlocked level_10 for a player who already
\* held speed_demon and qualified for it again
C7_Witness ==
    /\ response.op = "complete_session" /\ response.ok
    /\ response.achievements = <<"level_10">>
    /\ sessions[response.session].correct
    /\ sessions[response.session].time_spent < 5 * TimeUnit

\* C8: when complete_session has returned, the player holds every brush
\* whose level they have reached.
C8_BrushesOfLevel ==
    (response.op = "complete_session" /\ response.ok) =>
        LET player == player_objs[sessions[response.session].player]
        IN  \A i \in DOMAIN unlocks :
                player.level >= unlocks[i].level
                    => Contains(player.brushes_unlocked, unlocks[i].brush)

\* C9 as claimed: level_up tells whether add_xp(score) raised the level, and
\* new_level is None if it did not and else the level that add_xp left.
C9_NewLevelOfScore ==
    [][Completion =>
          LET before == player_objs[owner]
              raised == before.xp + sessions'[done].score
                            >= before.level * 100
          IN  /\ response'.level_up = raised
              /\ response'.new_level =
                     IF raised THEN before.level + 1 ELSE None]_vars

\* C9 as amended: level_up tells whether add_xp(score) raised the level, and
\* new_level is None if it did not and else the player's level when the call
\* returns, the achievement bonuses included.
C9_NewLevelAtReturn ==
    [][Completion =>
          LET before == player_objs[owner]
              raised == before.xp + sessions'[done].score
                            >= before.level * 100
          IN  /\ response'.level_up = raised
              /\ response'.new_level =
                     IF raised THEN player_objs'[owner].level ELSE None]_vars

\* C9's case: the score took a new player to level 2 and a bonus on to
\* level 3, which is what the call returned
C9_Witness ==
    /\ response.op = "complete_session" /\ response.ok
    /\ response.level_up /\ response.new_level = 3
    /\ player_objs[sessions[response.session].player].total_drawings = 1

\* C10: for every player the manager can produce, add_xp(level*100) returns
\* true, raises the level by one, and leaves 0 <= xp < level*100 at the new
\* level.
C10_OneLevelUp ==
    \A r \in DOMAIN player_objs :
        LET player == player_objs[r]
            added == add_xp(player, player.level * 100)
        IN  /\ added.level_up
            /\ added.player.level = player.level + 1
            /\ 0 <= added.player.xp
            /\ added.player.xp < added.player.level * 100

\* C10's case: a player at level 3 whose xp is at or past the
\* threshold of their level
C10_Witness ==
    \E r \in DOMAIN player_objs :
        /\ player_objs[r].level >= 3
        /\ player_objs[r].xp >= player_objs[r].level * 100
        /\ add_xp(player_objs[r], player_objs[r].level * 100).player.xp
               = player_objs[r].xp

\* add_xp(0) called n times, one call after the other: the player it leaves
\* and whether any of the calls returned true
RECURSIVE add_xp_0_times(_, _)
add_xp_0_times(player, n) ==
    IF n = 0 THEN [player |-> player, level_up |-> FALSE]
    ELSE LET added == add_xp(player, 0)
             rest == add_xp_0_times(added.player, n - 1)
         IN  [player |-> rest.player,
              level_up |-> added.level_up \/ rest.level_up]

\* C11: for every player the manager's operations can produce, add_xp(0)
\* called once, twice or three times returns false each time and leaves the
\* level as it was.  Stated for the players none of whose sessions was
\* completed twice, so that what refutes it owes nothing to C1.
C11_AddXpZero ==
    \A r \in DOMAIN player_objs :
        Cardinality(completed_of(r)) = player_objs[r].total_drawings
            => \A n \in 1..3 :
                   LET added == add_xp_0_times(player_objs[r], n)
                   IN  /\ ~added.level_up
                       /\ added.player.level = player_objs[r].level

\* C12: no step lowers a player's total_drawings or correct_guesses; a
\* complete_session call that returns adds exactly 1 to the owner's
\* total_drawings and 1 to correct_guesses if the classification is correct
\* and 0 otherwise; every other step leaves both as they were.
C12_Counters ==
    [][/\ \A r \in DOMAIN player_objs :
              /\ r \in DOMAIN player_objs'
              /\ player_objs'[r].total_drawings >= player_objs[r].total_drawings
              /\ player_objs'[r].correct_guesses
                     >= player_objs[r].correct_guesses
       /\ \A r \in DOMAIN player_objs :
              LET hit == Completion /\ r = owner
                  correct == hit /\ sessions'[done].correct
              IN  /\ player_objs'[r].total_drawings =
                         player_objs[r].total_drawings + (IF hit THEN 1 ELSE 0)
                  /\ player_objs'[r].correct_guesses =
                         player_objs[r].correct_guesses
                             + (IF correct THEN 1 ELSE 0)]_vars

\* C12's case: a miss has just been counted as a drawing for a player who
\* had a correct drawing before
C12_Witness ==
    /\ response.op = "complete_session" /\ response.ok
    /\ ~sessions[response.session].correct
    /\ player_objs[sessions[response.session].player].total_drawings = 2
    /\ player_objs[sessions[response.session].player].correct_guesses = 1

\* C13: the accuracy the leaderboard reports for a player is between 0 and
\* 100 (0..1000 tenths), and is 0 for a player without drawings.
C13_Accuracy ==
    \A r \in DOMAIN player_objs :
        /\ 0 <= accuracy(player_objs[r])
        /\ accuracy(player_objs[r]) <= 100 * 10
        /\ player_objs[r].total_drawings = 0 => accuracy(player_objs[r]) = 0

\* C13's case: a player with one hit in three drawings, reported as 33.3
C13_Witness ==
    \E r \in DOMAIN player_objs :
        /\ player_objs[r].total_drawings = 3
        /\ player_objs[r].correct_guesses = 1
        /\ accuracy(player_objs[r]) = 333

\* a step that is a start_session call that returned a session
Started == response'.op = "start_session" /\ response'.ok

\* the prompt of the session it created
drawn == sessions'[response'.session].prompt

\* the level of the player it was started for
level_at_start == player_objs[sessions'[response'.session].player].level

\* what a prompt is: an entry of a pool with that pool's difficulty and limit
is_easy(p) ==
    p.text \in choice(EASY_PROMPTS) /\ p.difficulty = EASY /\ p.time_limit = 20

is_medium(p) ==
    /\ p.text \in choice(MEDIUM_PROMPTS)
    /\ p.difficulty = MEDIUM /\ p.time_limit = 25

is_hard(p) ==
    p.text \in choice(HARD_PROMPTS) /\ p.difficulty = HARD /\ p.time_limit = 30

is_surprise(p) ==
    /\ p.text \in choice(SURPRISE_PROMPTS)
    /\ p.difficulty = MEDIUM /\ p.time_limit = 30

\* C14: the prompt of a started session is of the difficulty of the player's
\* level (below 3 EASY, 3..6 MEDIUM, from 7 on MEDIUM or HARD) or a surprise
\* prompt, a surprise prompt comes only of a call with the surprise flag set,
\* and the caller's hint makes no difference: the call with any other hint
\* can take the same step.
C14_LevelDifficulty ==
    [][Started =>
          /\ level_at_start < 3 => is_easy(drawn) \/ is_surprise(drawn)
          /\ (level_at_start >= 3 /\ level_at_start < 7)
                 => is_medium(drawn) \/ is_surprise(drawn)
          /\ level_at_start >= 7
                 => is_medium(drawn) \/ is_hard(drawn) \/ is_surprise(drawn)
          /\ \A player_id \in DOMAIN players :
                 /\ is_surprise(drawn) =>
                        \A hint \in Difficulties :
                            ~start_session(player_id, hint, FALSE, drawn)
                 /\ \A surprise_mode \in BOOLEAN :
                    \A hint, other \in Difficulties :
                        start_session(player_id, hint, surprise_mode, drawn)
                            <=> start_session(player_id, other, surprise_mode,
                                              drawn)]_vars

\* C14's case: a player who started at level 1 on an EASY prompt has reached
\* level 7 and has just been given a HARD one
C14_Witness ==
    /\ response.op = "start_session" /\ response.ok
    /\ response.session = 2
    /\ is_easy(sessions[1].prompt)
    /\ is_hard(sessions[2].prompt)
    /\ player_objs[sessions[2].player].level >= 7

\* C15: every prompt generate(difficulty, surprise) can return is an entry of
\* the pool of the requested difficulty with that difficulty and its limit
\* (20, 25, 30), or, only if surprise is set, an entry of the surprise pool
\* with MEDIUM and 30; and so is the prompt of every session.
C15_Prompts ==
    /\ \A difficulty \in Difficulties : \A surprise \in BOOLEAN :
       \A p \in generate(difficulty, surprise) :
           \/ difficulty = EASY /\ is_easy(p)
           \/ difficulty = MEDIUM /\ is_medium(p)
           \/ difficulty = HARD /\ is_hard(p)
           \/ surprise /\ is_surprise(p)
    /\ \A s \in DOMAIN sessions :
           \/ is_easy(sessions[s].prompt)
           \/ is_medium(sessions[s].prompt)
           \/ is_hard(sessions[s].prompt)
           \/ is_surprise(sessions[s].prompt)

\* C15's case: a session on a surprise prompt and one on a MEDIUM prompt
C15_Witness ==
    /\ Len(sessions) = 2
    /\ is_surprise(sessions[1].prompt)
    /\ is_medium(sessions[2].prompt)

\* C16: start_session for a player id that is not a key of players raises the
\* not-found error (ValueError, "Jogador nao encontrado") and leaves players,
\* the players themselves, sessions and rooms as they were.
C16_UnknownPlayer ==
    [][\A player_id \in DOMAIN players \cup {None} :
       \A difficulty \in Difficulties : \A surprise_mode \in BOOLEAN :
       \A prompt \in Drawn :
           (/\ player_id \notin DOMAIN players
            /\ start_session(player_id, difficulty, surprise_mode, prompt))
               => /\ response' = [op |-> "start_session", ok |-> FALSE,
                                   error |-> "ValueError"]
                  /\ UNCHANGED <<players, player_objs, sessions,
                                 multiplayer_rooms>>]_vars

\* C16's case: the call has failed in a manager that has a player and a
\* completed session
C16_Witness ==
    /\ response.op = "start_session" /\ ~response.ok
    /\ player_objs # <<>>
    /\ sessions # <<>> /\ completed(1)

\* C17: complete_session for a session id that is not a key of sessions
\* raises the not-found error (ValueError, "Sessao nao encontrada") and leaves
\* every player, every session and every room as they were.
C17_UnknownSession ==
    [][\A session_id \in 1..(Len(sessions) + 1) :
       \A drawing_data \in DrawingData : \A ai_result \in AiResults :
       \A time_spent \in TimesSpent :
           (/\ session_id \notin DOMAIN sessions
            /\ complete_session(session_id, drawing_data, ai_result,
                                time_spent))
               => /\ response' = [op |-> "complete_session", ok |-> FALSE,
                                   error |-> "ValueError"]
                  /\ UNCHANGED <<players, player_objs, sessions,
                                 multiplayer_rooms>>]_vars

\* C17's case: the call has failed in a manager that has a player with a
\* drawing and a session not yet completed
C17_Witness ==
    /\ response.op = "complete_session" /\ ~response.ok
    /\ \E r \in DOMAIN player_objs : player_objs[r].total_drawings = 1
    /\ \E s \in DOMAIN sessions : ~completed(s)

\* C18: a completion request that names a session id not in sessions is
\* answered 404, not 5xx, and analyze_drawing is not called for it.
C18_UnknownSessionIs404 ==
    [][\A i \in DOMAIN http_requests : \A k \in DOMAIN Services :
           (/\ http_requests[i].session_id \notin DOMAIN sessions
            /\ api_session_complete(i, Services[k]))
               => /\ http_requests'[i].status = 404
                  /\ ~http_requests'[i].analyzed]_vars

\* the replies a classification can meet, whichever the module
replies_of(service) ==
    IF gemini_service.module = ONE_POST THEN <<service>>
    ELSE service.first \o service.second

\* the classification fails: there is no API key, or no reply has status 200
\* and a text that is a str with a JSON dict in it
failing(service) ==
    \/ ~gemini_service.api_key
    \/ \A n \in DOMAIN replies_of(service) :
           LET reply == replies_of(service)[n]
           IN  ~(/\ reply.status = 200
                 /\ reply.body.candidates
                 /\ reply.body.text.str
                 /\ braces(reply.body.text.tokens) # {})

\* C19: analyze_drawing raises nothing, whatever the service answers, and
\* returns guesses, confidence, feedback, reaction and correct; when the
\* classification fails, correct is false and the completion that follows
\* has the base score 20.
C19_NeverRaises ==
    [][\A i \in DOMAIN http_requests : \A k \in DOMAIN Services :
           (/\ http_requests[i].session_id \in DOMAIN sessions
            /\ api_session_complete(i, Services[k]))
               => LET ai_result ==
                          classify(Services[k],
                                   sessions[http_requests[i].session_id]
                                       .prompt.text)
                  IN  /\ ai_result.raised = ""
                      /\ http_requests'[i].raised = ""
                      /\ DOMAIN ai_result.result =
                             {"guesses", "confidence", "feedback",
                              "reaction", "correct"}
                      /\ failing(Services[k]) =>
                             /\ ~ai_result.result.correct
                             /\ response'.rewards.breakdown.base = 20]_vars

\* C20: every completion request answered 200 was served by one whole
\* complete_session call on the state it found, and no other step but
\* create_player and start_session writes a player or a session: the
\* completions of two requests in flight for one session take place one
\* after the other, in the order they are answered.
C20_OneAfterTheOther ==
    [][/\ \A i \in DOMAIN http_requests :
              (http_requests[i].status = None /\ http_requests'[i].status = 200)
                  => \E k \in DOMAIN Services :
                         LET request == http_requests[i]
                             ai_result ==
                                 classify(Services[k],
                                          sessions[request.session_id]
                                              .prompt.text)
                         IN  /\ ai_result.raised = ""
                             /\ complete_session(request.session_id,
                                                 request.drawing_data,
                                                 ai_result.result,
                                                 request.time_spent)
       /\ (sessions' # sessions \/ player_objs' # player_objs)
              => \/ \E i \in DOMAIN http_requests :
                        /\ http_requests[i].status = None
                        /\ http_requests'[i].status = 200
                        /\ \A j \in DOMAIN http_requests \ {i} :
                               http_requests'[j] = http_requests[j]
                 \/ /\ response'.op \in {"create_player", "start_session"}
                    /\ http_requests' = http_requests]_vars

\* C20's case: two requests for the same session were in flight together and
\* both have been answered, the player having two drawings
C20_Witness ==
    /\ Len(http_requests) = 2
    /\ http_requests[1].session_id = http_requests[2].session_id
    /\ http_requests[1].status = 200 /\ http_requests[2].status = 200
    /\ response.op = "complete_session" /\ response.ok
    /\ player_objs[sessions[response.session].player].total_drawings = 2

\* what a completion writes on a session
outcome(session) ==
    <<session.drawing_data, session.ai_guesses, session.correct,
      session.time_spent, session.score>>

\* C21: every session that has been started and not completed has score 0,
\* an empty guess list, correct = false, time_spent = 0 and no drawing
\* payload; and these fields of a session change only in a step that is a
\* complete_session call on that session's id.
C21_DefaultsUntilCompleted ==
    /\ [](\A s \in DOMAIN sessions :
            ~completed(s) => outcome(sessions[s]) = <<"None", <<>>, FALSE, 0, 0>>)
    /\ [][\A s \in DOMAIN sessions :
            outcome(sessions'[s]) # outcome(sessions[s])
                => Completion /\ done = s]_vars

\* C21's case: the first session has been completed by the call just made,
\* the second has been started and not completed
C21_Witness ==
    /\ response.op = "complete_session" /\ response.ok
    /\ response.session = 1
    /\ Len(sessions) = 2 /\ completed(1) /\ ~completed(2)

\* C22: create_player adds exactly one player, under an id that was no key
\* of players, with level 1, xp 0, streak 0, no drawings, no correct guesses,
\* the brushes [NORMAL] and no achievements, and leaves every player there
\* was, every session and every room as they were.
C22_CreatePlayer ==
    [][\A n \in DOMAIN LobbyNames :
           create_player(LobbyNames[n])
               => LET new == response'.player
                      p == player_objs'[players'[new]]
                  IN  /\ new \notin DOMAIN players
                      /\ DOMAIN players' = DOMAIN players \cup {new}
                      /\ Len(player_objs') = Len(player_objs) + 1
                      /\ players'[new] = Len(player_objs')
                      /\ p = [id |-> new, name |-> LobbyNames[n],
                              level |-> 1, xp |-> 0, streak |-> 0,
                              total_drawings |-> 0, correct_guesses |-> 0,
                              brushes_unlocked |-> <<NORMAL>>,
                              achievements |-> <<>>]
                      /\ \A k \in DOMAIN players :
                             /\ players'[k] = players[k]
                             /\ player_objs'[players[k]]
                                    = player_objs[players[k]]
                      /\ UNCHANGED <<sessions, multiplayer_rooms>>]_vars

\* C22's case: a second player has been created in a manager that has a
\* player with a completed session, and a room
C22_Witness ==
    /\ response.op = "create_player" /\ response.player = 2
    /\ player_objs[1].total_drawings = 1
    /\ sessions # <<>> /\ completed(1)
    /\ multiplayer_rooms # <<>>

\* the player a leaderboard entry is about: the names are distinct
entry_player(entry) ==
    player_objs[CHOOSE r \in DOMAIN player_objs :
                    player_objs[r].name = entry.name]

\* C23: get_leaderboard(limit) with limit >= 0 returns min(limit, number of
\* players) entries, ordered by (level, correct_guesses) non-increasing, the
\* players of equal (level, correct_guesses) in the order of their creation,
\* and the entry at position i, counting from 1, has rank i.
C23_Leaderboard ==
    (response.op = "get_leaderboard" /\ response.limit >= 0)
        => LET board == response.leaderboard
               n == Cardinality(DOMAIN players)
           IN  /\ Len(board) = IF response.limit < n THEN response.limit
                               ELSE n
               /\ \A i \in DOMAIN board : board[i].rank = i
               /\ \A i \in DOMAIN board : \A j \in DOMAIN board :
                      i < j =>
                          LET a == entry_player(board[i])
                              b == entry_player(board[j])
                          IN  /\ ~key_below(a, b)
                              /\ ~key_below(b, a) => a.id < b.id

\* C23's case: the leaderboard has been read with two players of level 2
\* without a correct guess on it
C23_Witness ==
    /\ response.op = "get_leaderboard" /\ response.limit = 2
    /\ Len(response.leaderboard) = 2
    /\ \A i \in 1..2 : /\ response.leaderboard[i].level = 2
                       /\ response.leaderboard[i].accuracy = 0

\* C24: join_multiplayer_room with a room id that is no key of the rooms
\* returns false without raising, leaves every room's member list as it
\* was and creates no room, so that what the rooms list to other callers
\* stays the same.
C24_JoinUnknownRoom ==
    [][\A room_id \in RoomIds \cup {NoRoom} :
       \A player_id \in DOMAIN players \cup {Ghost} :
           (/\ room_id \notin DOMAIN multiplayer_rooms
            /\ join_multiplayer_room(room_id, player_id))
               => /\ response'.ok /\ ~response'.returned
                  /\ DOMAIN multiplayer_rooms' = DOMAIN multiplayer_rooms
                  /\ \A r \in DOMAIN multiplayer_rooms :
                         multiplayer_rooms'[r] = multiplayer_rooms[r]
                  /\ UNCHANGED <<players, player_objs>>]_vars

\* C24's case: the join has returned false in a manager that has a room of
\* two members
C24_Witness ==
    /\ response.op = "join_multiplayer_room" /\ ~response.returned
    /\ \E r \in DOMAIN multiplayer_rooms : Len(multiplayer_rooms[r]) = 2

\* C25: whatever create and join calls were made, no room's member list has
\* an id twice; the list starts with the id that created the room, takes the
\* other ids at its end in the order of their first join, and loses none;
\* a join with an id that is a member returns true and leaves the list as it
\* was.
C25_RoomMembers ==
    /\ [](\A r \in DOMAIN multiplayer_rooms :
            \A i \in DOMAIN multiplayer_rooms[r] :
            \A j \in DOMAIN multiplayer_rooms[r] :
                multiplayer_rooms[r][i] = multiplayer_rooms[r][j] => i = j)
    /\ [][/\ \A r \in DOMAIN multiplayer_rooms :
                /\ r \in DOMAIN multiplayer_rooms'
                /\ Len(multiplayer_rooms'[r]) >= Len(multiplayer_rooms[r])
                /\ SubSeq(multiplayer_rooms'[r], 1, Len(multiplayer_rooms[r]))
                       = multiplayer_rooms[r]
          /\ \A room_id \in RoomIds :
             \A player_id \in DOMAIN players \cup {Ghost} :
                 /\ (/\ room_id \notin DOMAIN multiplayer_rooms
                     /\ create_multiplayer_room(player_id, room_id))
                        => multiplayer_rooms'[room_id] = <<player_id>>
                 /\ (/\ room_id \in DOMAIN multiplayer_rooms
                     /\ join_multiplayer_room(room_id, player_id))
                        => /\ response'.returned
                           /\ multiplayer_rooms'[room_id] =
                                  IF Contains(multiplayer_rooms[room_id],
                                              player_id)
                                  THEN multiplayer_rooms[room_id]
                                  ELSE Append(multiplayer_rooms[room_id],
                                              player_id)]_vars

\* C25's case: the id that created a room of three members has joined it
\* again
C25_Witness ==
    /\ response.op = "join_multiplayer_room" /\ response.returned
    /\ response.room \in DOMAIN multiplayer_rooms
    /\ Len(multiplayer_rooms[response.room]) = 3
    /\ multiplayer_rooms[response.room][1] = response.player

\* the ids of the list that are keys of players
RECURSIVE known_from(_, _)
known_from(player_ids, i) ==
    IF i > Len(player_ids) THEN <<>>
    ELSE (IF player_ids[i] \in DOMAIN players THEN <<player_ids[i]>>
          ELSE <<>>)
         \o known_from(player_ids, i + 1)

\* C26: get_room_players(room_id) returns, in the order of the member list,
\* exactly the players whose ids are in the room and are keys of players;
\* the ids that are not are left out without an error, and a room id that
\* is no key of the rooms gives the empty list.
C26_RoomPlayers ==
    response.op = "get_room_players"
        => LET known == IF response.room \in DOMAIN multiplayer_rooms
                        THEN known_from(multiplayer_rooms[response.room], 1)
                        ELSE <<>>
           IN  /\ response.ok
               /\ Len(response.players) = Len(known)
               /\ \A i \in DOMAIN known :
                      /\ response.players[i] = players[known[i]]
                      /\ player_objs[response.players[i]].id = known[i]

\* C26's case: the room read has a member without player between two
\* players
C26_Witness ==
    /\ response.op = "get_room_players"
    /\ response.room \in DOMAIN multiplayer_rooms
    /\ multiplayer_rooms[response.room] = <<2, Ghost, 1>>
    /\ Len(response.players) = 2

\* C27: in the manager that provisions players, a start_session call with an
\* id no player has creates one player record, stored under that id: from
\* then on every key of players is the id of the player stored under it, and
\* a leaderboard that is not cut short lists the new player exactly once.
C27_ProvisionedOnce ==
    /\ \A k \in DOMAIN players : player_objs[players[k]].id = k
    /\ (response.op = "get_leaderboard" /\ response.limit = 10)
           => \A r \in DOMAIN player_objs :
                  Cardinality({i \in DOMAIN response.leaderboard :
                                   response.leaderboard[i].name
                                       = player_objs[r].name}) = 1

\* C28: a complete_session call that returns changes only the session it
\* names and the player owning it: every other session, every other player,
\* the keys of players, the rooms, and the player and prompt references of
\* the session itself are as before.
C28_CompletionFrame ==
    [][Completion
          => /\ DOMAIN sessions' = DOMAIN sessions
             /\ \A s \in DOMAIN sessions : s # done => sessions'[s] = sessions[s]
             /\ sessions'[done].player = sessions[done].player
             /\ sessions'[done].prompt = sessions[done].prompt
             /\ DOMAIN player_objs' = DOMAIN player_objs
             /\ \A r \in DOMAIN player_objs :
                    r # owner => player_objs'[r] = player_objs[r]
             /\ UNCHANGED <<players, multiplayer_rooms>>]_vars

\* C28's case: a session has been completed in a manager that has another
\* player with a completed session, and a room
C28_Witness ==
    /\ response.op = "complete_session" /\ response.ok
    /\ Len(player_objs) = 2 /\ Len(sessions) = 2
    /\ completed(1) /\ completed(2)
    /\ sessions[1].player # sessions[2].player
    /\ multiplayer_rooms # <<>>

\* attempt a comes before attempt b in the order model, action, base, payload
comes_before(a, b) ==
    \/ a.model_try < b.model_try
    \/ a.model_try = b.model_try /\ a.action < b.action
    \/ a.model_try = b.model_try /\ a.action = b.action /\ a.base < b.base
    \/ /\ a.model_try = b.model_try /\ a.action = b.action
       /\ a.base = b.base /\ a.payload < b.payload

\* the attempts a round over models can make
attempts_of(f, models) ==
    Cardinality({i \in DOMAIN models : models[i] # ""})
        * Len(actions(f.api_mode)) * Len(Bases)
        * Len(payloads_to_try(f.api_mode))

\* C29: in analyze_drawing of gemini_service.py the attempts of a round are
\* made in the order model, then action, then base, then payload, from the
\* first model on; a POST answered with 200 and a result ends the call
\* without another request; the listing of the models is asked for only
\* after a first round that has gone through its attempts without a result;
\* the requests sent never exceed the attempts of the two rounds and the
\* listing, and the call comes to its end.
C29_AttemptOrder ==
    /\ [][/\ (frame'.pc \in {"first", "second"} /\ frame.pc = frame'.pc)
                => /\ comes_before(frame.at, frame'.at)
                   /\ frame'.sent = frame.sent + 1
          /\ (frame'.pc \in {"first", "second"} /\ frame.pc # frame'.pc)
                => frame'.at =
                       first_attempt(IF frame'.pc = "first"
                                     THEN frame'.models_to_try
                                     ELSE frame'.fallback_models)
          /\ \A k \in DOMAIN Posts :
                 (/\ post(Posts[k], "gato")
                  /\ Posts[k].status = 200 /\ Posts[k].result.found)
                    => /\ frame'.pc = "done"
                       /\ frame'.result = Posts[k].result
          /\ frame.pc = "done" => frame'.sent = frame.sent
          /\ (frame'.pc = "listing" /\ frame.pc # "listing")
                => /\ ~frame'.result.found
                   /\ frame.pc = "idle" \/
                          /\ frame.pc = "first"
                          /\ after_payloads(frame.models_to_try,
                                            frame.api_mode, frame.at) = Over
          /\ frame'.pc = "second" => frame.pc \in {"listing", "second"}]_vars
    /\ [](frame.sent <= attempts_of(frame, frame.models_to_try) + 1
                            + attempts_of(frame, frame.fallback_models))
    /\ (frame.pc # "idle") ~> (frame.pc = "done")

\* C29's case: the call has ended with the result of a model the listing
\* named, after a first round in which every attempt was made
C29_Witness ==
    /\ frame.pc = "done" /\ frame.result.found
    /\ frame.used_model = "gemini-1.5-flash"
    /\ frame.sent > attempts_of(frame, frame.models_to_try) + 1

\* C30: a complete_session call that leaves the level of the session's
\* player higher than it was before the call returns level_up = true.
C30_LevelUpReported ==
    [][Completion
          => (player_objs'[owner].level > player_objs[owner].level
                  => response'.level_up)]_vars

\* the points add_xp is tried with on the players reached: nothing, the
\* least score, the bonuses, the greatest score
XpPoints == {0, 20, 50, 75, 100, 150, 200, 300, 500}

\* the bonuses of a list of achievement ids, summed
RECURSIVE bonuses_from(_, _)
bonuses_from(new_achievements, i) ==
    IF i > Len(new_achievements) THEN 0
    ELSE ACHIEVEMENTS[new_achievements[i]]
             + bonuses_from(new_achievements, i + 1)

\* C31: add_xp conserves experience: with lifetime_xp = 100 * (1 + 2 + ... +
\* (level - 1)) + xp, add_xp(points) raises lifetime_xp by exactly points,
\* and a complete_session call raises the owner's lifetime_xp by exactly the
\* session's score plus the bonuses of the achievements it returns.
C31_XpConserved ==
    /\ [](\A r \in DOMAIN player_objs : \A points \in XpPoints :
            lifetime_xp(add_xp(player_objs[r], points).player)
                = lifetime_xp(player_objs[r]) + points)
    /\ [][Completion
             => lifetime_xp(player_objs'[owner])
                    = lifetime_xp(player_objs[owner]) + response'.rewards.score
                          + bonuses_from(response'.achievements, 1)]_vars

\* C31's case: a completion has returned two achievements and no level-up
\* for a player it left above level 1
C31_Witness ==
    /\ response.op = "complete_session" /\ response.ok
    /\ Len(response.achievements) = 2 /\ ~response.level_up
    /\ player_objs[sessions[response.session].player].level > 1

\* C32: a player's level is at least 1 and no step lowers it; one add_xp call
\* raises it by at most 1, and one complete_session call by at most 1 plus
\* the number of achievements it returns.
C32_LevelSteps ==
    /\ [](\A r \in DOMAIN player_objs :
            /\ player_objs[r].level >= 1
            /\ \A points \in XpPoints :
                   add_xp(player_objs[r], points).player.level
                       \in {player_objs[r].level, player_objs[r].level + 1})
    /\ [][/\ \A r \in DOMAIN player_objs :
                 player_objs'[r].level >= player_objs[r].level
          /\ Completion
                 => player_objs'[owner].level
                        <= player_objs[owner].level + 1
                               + Len(response'.achievements)]_vars

\* C32's case: a player's first completion has left them at level 3 or
\* above
C32_Witness ==
    /\ response.op = "complete_session" /\ response.ok
    /\ \E r \in DOMAIN player_objs :
           player_objs[r].total_drawings = 1 /\ player_objs[r].level >= 3

\* C33: every player has 0 <= streak <= correct_guesses <= total_drawings.
C33_StreakWithinCounters ==
    \A r \in DOMAIN player_objs :
        /\ 0 <= player_objs[r].streak
        /\ player_objs[r].streak <= player_objs[r].correct_guesses
        /\ player_objs[r].correct_guesses <= player_objs[r].total_drawings

\* C33's case: a player with a streak after misses, the three numbers
\* different
C33_Witness ==
    \E r \in DOMAIN player_objs :
        /\ 0 < player_objs[r].streak
        /\ player_objs[r].streak < player_objs[r].correct_guesses
        /\ player_objs[r].correct_guesses < player_objs[r].total_drawings

\* the level a brush asks for
brush_level(brush) ==
    IF brush = NEON THEN 3
    ELSE IF brush = SPRAY THEN 5
    ELSE IF brush = MARKER THEN 7
    ELSE IF brush = SPARKLE THEN 10
    ELSE 1

\* C34: a player's brushes hold NORMAL, hold no brush twice, lose no brush in
\* any step, and hold NEON, SPRAY, MARKER or SPARKLE only if the player's
\* level is at least 3, 5, 7 or 10.
C34_BrushesEarned ==
    /\ [](\A r \in DOMAIN player_objs :
            LET brushes == player_objs[r].brushes_unlocked
            IN  /\ Contains(brushes, NORMAL)
                /\ \A i \in DOMAIN brushes : \A j \in DOMAIN brushes :
                       brushes[i] = brushes[j] => i = j
                /\ \A i \in DOMAIN brushes :
                       player_objs[r].level >= brush_level(brushes[i]))
    /\ [][\A r \in DOMAIN player_objs :
            \A i \in DOMAIN player_objs[r].brushes_unlocked :
                Contains(player_objs'[r].brushes_unlocked,
                         player_objs[r].brushes_unlocked[i])]_vars

\* C34's case: a player holds the five brushes
C34_Witness ==
    \E r \in DOMAIN player_objs : Len(player_objs[r].brushes_unlocked) = 5

\* C35: between the calls every player with a drawing holds first_draw,
\* every player with a streak of 10 or more holds perfectionist, every
\* player with 5 or more misses holds abstract_master; and a player's first
\* completion returns first_draw whatever the classification.
C35_AchievementsGranted ==
    /\ [](\A r \in DOMAIN player_objs :
            LET p == player_objs[r]
            IN  /\ p.total_drawings >= 1 => Contains(p.achievements, "first_draw")
                /\ p.streak >= 10 => Contains(p.achievements, "perfectionist")
                /\ p.total_drawings - p.correct_guesses >= 5
                       => Contains(p.achievements, "abstract_master"))
    /\ [][(Completion /\ player_objs[owner].total_drawings = 0)
             => Contains(response'.achievements, "first_draw")]_vars

\* C35's case: a player holds the three achievements, the streak and the
\* misses being theirs now
C35_Witness ==
    \E r \in DOMAIN player_objs :
        /\ player_objs[r].streak >= 10
        /\ player_objs[r].total_drawings - player_objs[r].correct_guesses >= 5
        /\ Contains(player_objs[r].achievements, "first_draw")
        /\ Contains(player_objs[r].achievements, "perfectionist")
        /\ Contains(player_objs[r].achievements, "abstract_master")

\* C36: between the calls a player whose level is 10 or more holds level_10.
C36_Level10Held ==
    \A r \in DOMAIN player_objs :
        player_objs[r].level >= 10
            => Contains(player_objs[r].achievements, "level_10")

\* C37: a player's achievements are borne out by their numbers: first_draw
\* by a drawing, speed_demon by a correct guess, perfectionist by 10 correct
\* guesses, level_10 by level 10, abstract_master by 5 misses; and no player
\* holds night_owl, for which there is no rule.
C37_AchievementsJustified ==
    \A r \in DOMAIN player_objs :
        LET p == player_objs[r]
            held(id) == Contains(p.achievements, id)
        IN  /\ held("first_draw") => p.total_drawings >= 1
            /\ held("speed_demon") => p.correct_guesses >= 1
            /\ held("perfectionist") => p.correct_guesses >= 10
            /\ held("level_10") => p.level >= 10
            /\ held("abstract_master")
                   => p.total_drawings - p.correct_guesses >= 5
            /\ ~held("night_owl")

\* C37's case: a player holds level_10, perfectionist and speed_demon
C37_Witness ==
    \E r \in DOMAIN player_objs :
        /\ Contains(player_objs[r].achievements, "level_10")
        /\ Contains(player_objs[r].achievements, "perfectionist")
        /\ Contains(player_objs[r].achievements, "speed_demon")

====
